---- MODULE Spec2Model ----
(***************************************************************************)
(* Model of the advice rules of bot_daily_analysis.py: the start/sit rule, *)
(* the positional-strength aggregation, the trade rule and the free-agent  *)
(* rule, over a snapshot of the data provider (league) and a Config (cfg). *)
(*                                                                         *)
(* Projected points and thresholds are exact decimals counted in           *)
(* thousandths of a point (11.496 points is 11496).  A value that Python   *)
(* holds as None, or an attribute that is missing, is the string NoneV     *)
(* where the value is a string and the empty sequence << >> where it is a  *)
(* number (a present number v is <<v>>).                                   *)
(***************************************************************************)
EXTENDS Integers, Sequences, FiniteSets, TLC

VARIABLES
    league,          \* the provider's snapshot: teams, box_scores, free_agents
    cfg,             \* the Config the rules are called with
    pc,              \* the call main makes next ("done" after the last one)
    called,          \* the rules that have been called, in call order
    advice,          \* the list recommend_start_sit returned
    eligible_bench,  \* recommend_start_sit's local, per starter it got to
    thresh,          \* recommend_start_sit's local, per starter it compared
    strength,        \* the _team_strength_by_pos dicts recommend_trades computed
    trades,          \* the list recommend_trades returned
    best,            \* free_agent_targets' local, per position it fetched
    adds,            \* the list free_agent_targets returned
    advice_items,    \* main's list of all advice, in the order it was added
    report,          \* the lines write_advice_markdown wrote (<<>> before)
    returned,        \* what each evaluation of a rule returned, in call order
    files,           \* the files written so far: name -> header and rows
    raised,          \* the exception that ended the run (NoneV when none did)
    today,           \* the date in Eastern Time, as a day number
    fetched,         \* the seasons asked of the provider by extract_team_records
    asked            \* the rules that asked the provider for the box scores

vars == <<league, cfg, pc, called, advice, eligible_bench, thresh, strength, trades, best, adds, advice_items, report, returned, files, raised, today, fetched, asked>>

NoneV == "<None>"

(***************************************************************************)
(* Generic helpers: Python list and dict operations the rules use.         *)
(***************************************************************************)
Range(s) == {s[i] : i \in DOMAIN s}

SeqsUpTo(S, n) == UNION {[1..k -> S] : k \in 0..n}

RECURSIVE Filter(_, _)
\* [x for x in s if keep[x]], keep given as the set of indices kept
Filter(s, keepIdx) ==
    IF s = <<>> THEN <<>>
    ELSE LET n == Len(s)
             front == Filter(SubSeq(s, 1, n - 1), keepIdx)
         IN IF n \in keepIdx THEN Append(front, s[n]) ELSE front

\* s[:n]
Take(s, n) == SubSeq(s, 1, IF Len(s) < n THEN Len(s) ELSE n)

\* d.get(k, default) of a dict held as a function
Get(d, k, default) == IF k \in DOMAIN d THEN d[k] ELSE default

\* float(getattr(p, "projected_points", 0) or 0), in thousandths
Proj(p) == IF p.projected_points = <<>> THEN 0 ELSE p.projected_points[1]

\* round(x, 2) of x thousandths, as thousandths: to the nearest hundredth,
\* an exact tie to the even hundredth
Round2(x) ==
    LET r == x % 10
        down == x - r
    IN IF r < 5 THEN down
       ELSE IF r > 5 THEN down + 10
       ELSE IF (down \div 10) % 2 = 0 THEN down ELSE down + 10

(***************************************************************************)
(* _norm_pos: None and "" are returned as they are; anything else is       *)
(* upper-cased, and DST and D/ST both become D/ST.                         *)
(***************************************************************************)
Upper(s) ==
    CASE s = "rb" -> "RB"
      [] s = "wr" -> "WR"
      [] s = "qb" -> "QB"
      [] s = "te" -> "TE"
      [] s = "k" -> "K"
      [] s = "dst" -> "DST"
      [] s = "d/st" -> "D/ST"
      [] OTHER -> s

_norm_pos(pos) ==
    IF pos = NoneV \/ pos = "" THEN pos
    ELSE LET up == Upper(pos)
         IN IF up \in {"DST", "D/ST"} THEN "D/ST" ELSE up

(***************************************************************************)
(* _lineup_for_team: the lineup of the first box score the team plays in,  *)
(* split into starters (slot neither BE nor IR) and bench (slot BE or IR). *)
(***************************************************************************)
BenchSlots == {"BE", "IR"}

IsBench(p) == p.slot_position \in BenchSlots

\* mutant of _lineup_for_team: a team in no box score is given the home
\* lineup of the first one
LineupOfFirstBoxScore(lg, team_id) ==
    LET bs_list == lg.box_scores
        hits == {i \in DOMAIN bs_list :
                    bs_list[i].home_team = team_id \/ bs_list[i].away_team = team_id}
        lineup == IF bs_list = <<>> THEN <<>>
                  ELSE IF hits = {} \/ bs_list[1].home_team = team_id THEN bs_list[1].home_lineup
                  ELSE bs_list[1].away_lineup
    IN [starters |-> Filter(lineup, {i \in DOMAIN lineup : ~IsBench(lineup[i])}),
        bench |-> Filter(lineup, {i \in DOMAIN lineup : IsBench(lineup[i])})]

_lineup_for_team(lg, team_id) ==
    LET bs_list == lg.box_scores
        hits == {i \in DOMAIN bs_list :
                    bs_list[i].home_team = team_id \/ bs_list[i].away_team = team_id}
    IN IF hits = {} THEN [starters |-> <<>>, bench |-> <<>>]
       ELSE LET bs == bs_list[CHOOSE i \in hits : \A j \in hits : i <= j]
                lineup == IF bs.home_team = team_id THEN bs.home_lineup
                          ELSE bs.away_lineup
            IN [starters |-> Filter(lineup, {i \in DOMAIN lineup : ~IsBench(lineup[i])}),
                bench |-> Filter(lineup, {i \in DOMAIN lineup : IsBench(lineup[i])})]

\* mutant of _threshold_for: the per-position thresholds are ignored
ThresholdForIgnoringPositions(pos, c) == c.start_sit_threshold

\* _threshold_for: the dict is looked up under the normalized position, or
\* under "" when that is None or empty
_threshold_for(pos, c) ==
    LET n == _norm_pos(pos)
        posn == IF n = NoneV \/ n = "" THEN "" ELSE n
    IN Get(c.per_pos_thresholds, posn, c.start_sit_threshold)

\* mutant of Lockset: the configured strings as written
LocksetAsWritten(c) == Range(c.lock_positions)

\* {_norm_pos(p) for p in (cfg.lock_positions or [])}
Lockset(c) == {_norm_pos(p) : p \in Range(c.lock_positions)}

(***************************************************************************)
(* recommend_start_sit                                                     *)
(***************************************************************************)
\* set(str(s) for s in (getattr(b, "eligibleSlots", []) or []))
EligibleSlots(b) == Range(b.eligibleSlots)

\* mutant of Eligible: the bench player's position is compared as spelled
EligibleByRawPosition(b, starter_pos, lockset) ==
    /\ _norm_pos(b.position) \notin lockset
    /\ \/ starter_pos \in EligibleSlots(b)
       \/ b.position = starter_pos

\* the body of "for b in bench": is b appended to eligible_bench
Eligible(b, starter_pos, lockset) ==
    LET bpos == _norm_pos(b.position)
    IN /\ bpos \notin lockset
       /\ \/ starter_pos \in EligibleSlots(b)
          \/ bpos = starter_pos

EligibleBenchFor(starter, bench, lockset) ==
    Filter(bench, {i \in DOMAIN bench :
                      Eligible(bench[i], _norm_pos(starter.position), lockset)})

\* mutant of BestBench: the first eligible bench player is taken
BestBenchFirst(elig) == elig[1]

\* max(eligible_bench, key=projection): the first of the maximal ones
BestBench(elig) ==
    elig[CHOOSE i \in DOMAIN elig :
            /\ \A j \in DOMAIN elig : Proj(elig[j]) <= Proj(elig[i])
            /\ \A j \in 1..(i - 1) : Proj(elig[j]) < Proj(elig[i])]

\* delta = round(bench_proj - start_proj, 2)
Delta(best_bench, starter) == Round2(Proj(best_bench) - Proj(starter))

\* if delta >= thresh
Swap(delta, th) == delta >= th

\* one pass of "for starter in starters": the items it appends to advice
StartSitItems(starter, bench, c) ==
    LET lockset == Lockset(c)
        starter_pos == _norm_pos(starter.position)
        elig == EligibleBenchFor(starter, bench, lockset)
    IN IF starter_pos \in lockset THEN <<>>
       ELSE IF elig = <<>> THEN <<>>
       ELSE LET best_bench == BestBench(elig)
                delta == Delta(best_bench, starter)
                th == _threshold_for(starter_pos, c)
            IN IF Swap(delta, th)
               THEN <<[type |-> "start_sit",
                       bench_in |-> best_bench.name,
                       bench_pos |-> best_bench.position,
                       starter_out |-> starter.name,
                       starter_pos |-> starter.position,
                       proj_delta |-> delta,
                       threshold_used |-> th]>>
               ELSE <<>>

RECURSIVE StartSitLoop(_, _, _)
StartSitLoop(starters, bench, c) ==
    IF starters = <<>> THEN <<>>
    ELSE StartSitItems(Head(starters), bench, c)
            \o StartSitLoop(Tail(starters), bench, c)

recommend_start_sit(lg, c) ==
    IF c.my_team_id = <<>> THEN <<>>
    ELSE LET lu == _lineup_for_team(lg, c.my_team_id[1])
         IN StartSitLoop(lu.starters, lu.bench, c)

\* the local eligible_bench of each pass that computed it (the passes of the
\* starters whose position is not locked), by the starter's name
EligibleBenchTrace(lg, c) ==
    IF c.my_team_id = <<>> THEN <<>>
    ELSE LET lu == _lineup_for_team(lg, c.my_team_id[1])
             got == {i \in DOMAIN lu.starters :
                        _norm_pos(lu.starters[i].position) \notin Lockset(c)}
         IN [n \in {lu.starters[i].name : i \in got} |->
                LET i == CHOOSE j \in got : lu.starters[j].name = n
                IN EligibleBenchFor(lu.starters[i], lu.bench, Lockset(c))]

\* the local thresh of each pass that reached the comparison (the starter's
\* position is not locked and eligible_bench is not empty), by the starter's name
ThreshTrace(lg, c) ==
    LET eb == EligibleBenchTrace(lg, c)
        lu == _lineup_for_team(lg, c.my_team_id[1])
        got == {i \in DOMAIN lu.starters :
                   /\ lu.starters[i].name \in DOMAIN eb
                   /\ eb[lu.starters[i].name] # <<>>}
    IN IF c.my_team_id = <<>> THEN <<>>
       ELSE [n \in {lu.starters[i].name : i \in got} |->
                LET i == CHOOSE j \in got : lu.starters[j].name = n
                IN _threshold_for(_norm_pos(lu.starters[i].position), c)]

(***************************************************************************)
(* _team_strength_by_pos and recommend_trades                              *)
(***************************************************************************)
\* mutant of StrengthAdd: the projection replaces the total instead of adding to it
StrengthAddOverwrites(acc, p) ==
    LET pos == _norm_pos(p.position)
    IN [k \in DOMAIN acc \cup {pos} |-> IF k = pos THEN Proj(p) ELSE acc[k]]

\* strength[pos] = strength.get(pos, 0.0) + projection
StrengthAdd(acc, p) ==
    LET pos == _norm_pos(p.position)
    IN [k \in DOMAIN acc \cup {pos} |->
           IF k = pos THEN Get(acc, pos, 0) + Proj(p) ELSE acc[k]]

RECURSIVE StrengthLoop(_, _)
StrengthLoop(starters, acc) ==
    IF starters = <<>> THEN acc
    ELSE StrengthLoop(Tail(starters), StrengthAdd(acc, Head(starters)))

_team_strength_by_pos(lg, team_id) ==
    StrengthLoop(_lineup_for_team(lg, team_id).starters, <<>>)

need_margin == 8000

TradePositions == <<"RB", "WR", "QB", "TE">>

MaxTrades == 5

\* mutant of Imbalance: a lead of exactly the margin counts
ImbalanceAtMargin(ahead, behind, pos) ==
    Get(ahead, pos, 0) >= Get(behind, pos, 0) + need_margin

\* ahead.get(pos, 0.0) > behind.get(pos, 0.0) + need_margin
Imbalance(ahead, behind, pos) ==
    Get(ahead, pos, 0) > Get(behind, pos, 0) + need_margin

\* mutant of BenchAssets: the starters are offered too
BenchAssetsWithStarters(lu, lockset) ==
    Filter(lu.starters \o lu.bench,
           {i \in DOMAIN (lu.starters \o lu.bench) :
               _norm_pos((lu.starters \o lu.bench)[i].position) \notin lockset})

\* bench_assets: the bench players whose position is not locked
BenchAssets(lu, lockset) ==
    Filter(lu.bench, {i \in DOMAIN lu.bench : _norm_pos(lu.bench[i].position) \notin lockset})

\* next((p for p in players if _norm_pos(p.position) == pos), None), as << >> or <<p>>
FirstAt(players, pos) ==
    LET at == {i \in DOMAIN players : _norm_pos(players[i].position) = pos}
    IN IF at = {} THEN <<>>
       ELSE <<players[CHOOSE i \in at : \A j \in at : i <= j]>>

\* the body of the three nested loops: the items appended to recs for
\* opponent opp, give_pos and need_pos
TradeItems(my_strength, bench_assets, lockset, opp, opp_strength, opp_bench, give_pos, need_pos) ==
    LET gp == _norm_pos(give_pos)
        np == _norm_pos(need_pos)
        send == FirstAt(bench_assets, gp)
        recv == FirstAt(opp_bench, np)
    IN IF gp \in lockset THEN <<>>
       ELSE IF ~Imbalance(my_strength, opp_strength, gp) THEN <<>>
       ELSE IF np = gp \/ np \in lockset THEN <<>>
       ELSE IF ~Imbalance(opp_strength, my_strength, np) THEN <<>>
       ELSE IF send = <<>> \/ recv = <<>> THEN <<>>
       ELSE <<[type |-> "trade",
               trade_with_team |-> opp.team_name,
               send_player |-> <<send[1].name, send[1].position>>,
               receive_player |-> <<recv[1].name, recv[1].position>>,
               rationale |-> <<gp, opp.team_name, np>>]>>

RECURSIVE Concat(_)
\* the lists of a list, joined in order
Concat(ss) == IF ss = <<>> THEN <<>> ELSE Head(ss) \o Concat(Tail(ss))

\* mutant of TradeCap: the list is returned whole
TradeCapMissing(recs) == recs

\* return recs[:5]
TradeCap(recs) == Take(recs, MaxTrades)

\* "if opp.team_id == cfg.my_team_id: continue"
IsOpponent(opp, me) == opp.team_id # me

\* one pass of "for opp in league.teams"
TradeItemsWith(lg, me, my_strength, bench_assets, lockset, opp) ==
    IF ~IsOpponent(opp, me) THEN <<>>
    ELSE LET opp_strength == _team_strength_by_pos(lg, opp.team_id)
             opp_bench == _lineup_for_team(lg, opp.team_id).bench
         IN Concat([g \in DOMAIN TradePositions |-> Concat(
                [n \in DOMAIN TradePositions |->
                    TradeItems(my_strength, bench_assets, lockset,
                               opp, opp_strength, opp_bench,
                               TradePositions[g], TradePositions[n])])])

recommend_trades(lg, c) ==
    IF c.my_team_id = <<>> THEN <<>>
    ELSE LET me == c.my_team_id[1]
             my_strength == _team_strength_by_pos(lg, me)
             lockset == Lockset(c)
             bench_assets == BenchAssets(_lineup_for_team(lg, me), lockset)
         IN TradeCap(Concat(
                [o \in DOMAIN lg.teams |->
                    TradeItemsWith(lg, me, my_strength, bench_assets, lockset,
                                   lg.teams[o])]))

\* the dicts recommend_trades computes: the managed team's and each opponent's
StrengthTrace(lg, c) ==
    IF c.my_team_id = <<>> THEN <<>>
    ELSE [t \in {c.my_team_id[1]} \cup {lg.teams[o].team_id : o \in DOMAIN lg.teams} |->
             _team_strength_by_pos(lg, t)]

(***************************************************************************)
(* free_agent_targets.  league.free_agents[pos] is what the provider does  *)
(* on league.free_agents(size=cfg.free_agent_pool_size, position=pos): it  *)
(* raises, or returns the list players.                                    *)
(***************************************************************************)
FreeAgentPositions == <<"RB", "WR", "TE", "QB", "D/ST", "K">>

TopPerPosition == 5

MaxAdds == 10

\* the list with p put behind every player projected at least as high
InsertDesc(sorted, p) ==
    LET ahead == {i \in DOMAIN sorted : Proj(sorted[i]) >= Proj(p)}
        k == Cardinality(ahead)
    IN SubSeq(sorted, 1, k) \o <<p>> \o SubSeq(sorted, k + 1, Len(sorted))

RECURSIVE SortDesc(_)
\* mutant of SortDesc: the provider's order is kept
SortDescMissing(fas) == fas

\* sorted(fas, key=projection, reverse=True): stable, highest first
SortDesc(fas) ==
    IF fas = <<>> THEN <<>>
    ELSE InsertDesc(SortDesc(SubSeq(fas, 1, Len(fas) - 1)), fas[Len(fas)])

\* best = sorted(...)[:5]
BestOf(fas) == Take(SortDesc(fas), TopPerPosition)

\* does the pass of "for pos in [...]" reach the line that sets best
Fetched(lg, lockset, pos) == _norm_pos(pos) \notin lockset /\ ~lg.free_agents[pos].raises

\* one pass of "for pos in [...]": the items it appends to recs
FreeAgentItems(lg, lockset, pos) ==
    IF ~Fetched(lg, lockset, pos) THEN <<>>
    ELSE LET top == BestOf(lg.free_agents[pos].players)
         IN [i \in DOMAIN top |->
                [type |-> "add",
                 player |-> <<top[i].name, top[i].position>>,
                 proj_points |-> Round2(Proj(top[i])),
                 why |-> <<pos, top[i].percent_owned>>]]

\* mutant of AddCap: the list is returned whole
AddCapMissing(recs) == recs

\* return recs[:10]
AddCap(recs) == Take(recs, MaxAdds)

\* mutant of free_agent_targets: recs starts as the caller's list
FreeAgentTargetsOnCallersList(lg, c) ==
    AddCap(advice_items \o Concat([i \in DOMAIN FreeAgentPositions |->
                      FreeAgentItems(lg, Lockset(c), FreeAgentPositions[i])]))

free_agent_targets(lg, c) ==
    AddCap(Concat([i \in DOMAIN FreeAgentPositions |->
                      FreeAgentItems(lg, Lockset(c), FreeAgentPositions[i])]))

\* the local best of each pass that set it, by position
BestTrace(lg, c) ==
    [pos \in {q \in Range(FreeAgentPositions) : Fetched(lg, Lockset(c), q)} |->
        BestOf(lg.free_agents[pos].players)]

(***************************************************************************)
(* write_advice_markdown.  The content is kept as its lines; a line is a   *)
(* piece of fixed text or the rendering of one advice item.                *)
(***************************************************************************)
TextLine(t) == [text |-> t, item |-> <<>>]

\* the "- ..." line of item a: a function of the item's fields
ItemLine(a) == [text |-> "-", item |-> <<a>>]

\* [a for a in advice_items if a["type"] == t]
OfType(items, t) == Filter(items, {i \in DOMAIN items : items[i].type = t})

\* mutant of Section: the heading is written even with no items
SectionAlways(heading, items) ==
    <<TextLine(heading)>> \o [i \in DOMAIN items |-> ItemLine(items[i])] \o <<TextLine("")>>

\* "if items: lines.append(heading); for a in items: ...; lines.append('')"
Section(heading, items) ==
    IF items = <<>> THEN <<>>
    ELSE <<TextLine(heading)>> \o [i \in DOMAIN items |-> ItemLine(items[i])] \o <<TextLine("")>>

write_advice_markdown(items) ==
    IF items = <<>>
    THEN <<TextLine("# Daily Pre-Game Analysis"), TextLine(""),
           TextLine("**League scoring:**"), TextLine(""),
           TextLine("_No actionable recommendations today._"), TextLine("")>>
    ELSE <<TextLine("# Daily Pre-Game Analysis"), TextLine("**League scoring:**"), TextLine("")>>
         \o Section("## Start/Sit", OfType(items, "start_sit"))
         \o Section("## Free-Agent Targets", OfType(items, "add"))
         \o Section("## Trade Ideas", OfType(items, "trade"))

(***************************************************************************)
(* The exporters.  A DataFrame is its columns and its rows; built from an  *)
(* empty list of rows it has no columns.  An exporter gives the name of    *)
(* the file it writes and the DataFrame, or the exception it raises.  An   *)
(* optional number is <<>> (None) or <<n>>.                                *)
(***************************************************************************)
\* getattr(obj, name, default)
Attr(obj, name, default) == IF name \in DOMAIN obj THEN obj[name] ELSE default

\* pd.DataFrame(rows), the rows all having the keys columns
DataFrame(rows, columns) == [columns |-> IF rows = <<>> THEN <<>> ELSE columns, rows |-> rows]

Exported(name, df) == [raises |-> NoneV, name |-> name, df |-> df]

Raises(exception) == [raises |-> exception, name |-> "", df |-> DataFrame(<<>>, <<>>)]

\* df.to_csv(os.path.join(out_dir, name), index=False), on the files so far
to_csv(fs, name, df) ==
    [n \in DOMAIN fs \cup {name} |->
        IF n = name THEN [header |-> df.columns, delimiter |-> ",", rows |-> df.rows]
        ELSE fs[n]]

\* a or b, of optional numbers
OrElse(a, b) == IF a = <<>> \/ a = <<0>> THEN b ELSE a

\* the text of {week} in an f-string
Str(week) == IF week = <<>> THEN "None" ELSE ToString(week[1])

\* mutant of WeekOf: the scoring period is not looked at
WeekOfCurrentOnly(lg, scoring_period) == Attr(lg, "current_week", <<>>)

\* week = scoring_period or getattr(league, "current_week", None)
WeekOf(lg, scoring_period) == OrElse(scoring_period, Attr(lg, "current_week", <<>>))

\* is the pair of sort keys x before the pair y
KeyBefore(x, y) == x[1] < y[1] \/ (x[1] = y[1] /\ x[2] < y[2])

\* rows in ascending order of their pairs of sort keys, rows of equal keys in
\* the order they had
SortedByKeys(rows, keys) ==
    LET rank(i) == 1 + Cardinality({j \in DOMAIN rows :
                           KeyBefore(keys[j], keys[i]) \/ (keys[j] = keys[i] /\ j < i)})
    IN [k \in DOMAIN rows |-> rows[CHOOSE i \in DOMAIN rows : rank(i) = k]]

\* df.sort_values(by): KeyError when a column of by is not in the DataFrame
sort_values(df, by, keys) ==
    IF \E i \in DOMAIN by : by[i] \notin Range(df.columns) THEN Raises("KeyError")
    ELSE Exported("", [df EXCEPT !.rows = SortedByKeys(df.rows, keys)])

StandingsColumns == <<"team_id", "team_name", "wins", "points_for">>

export_standings(lg) ==
    LET rows == [i \in DOMAIN lg.teams |->
                    [team_id |-> lg.teams[i].team_id, team_name |-> lg.teams[i].team_name,
                     wins |-> Attr(lg.teams[i], "wins", 0),
                     points_for |-> Attr(lg.teams[i], "points_for", 0)]]
        \* ascending=[False, False]
        keys == [i \in DOMAIN rows |-> <<0 - rows[i].wins, 0 - rows[i].points_for>>]
        sorted == sort_values(DataFrame(rows, StandingsColumns), <<"wins", "points_for">>, keys)
    IN IF sorted.raises # NoneV THEN sorted ELSE Exported("standings.csv", sorted.df)

RECURSIVE SumProj(_)
\* sum(float(getattr(p, "projected_points", 0) or 0) for p in lineup)
SumProj(lineup) == IF lineup = <<>> THEN 0 ELSE Proj(Head(lineup)) + SumProj(Tail(lineup))

\* getattr(bs, name, None), and the sum over the lineup when that is falsy
Projected(bs, name, lineup) ==
    IF OrElse(Attr(bs, name, <<>>), <<>>) = <<>> THEN SumProj(lineup) ELSE Attr(bs, name, <<>>)[1]

MatchupColumns == <<"week", "home_team_id", "away_team_id", "projected_home", "projected_away">>

export_matchups(lg, scoring_period) ==
    LET week == WeekOf(lg, scoring_period)
        rows == [i \in DOMAIN lg.box_scores |->
                    [week |-> week,
                     home_team_id |-> lg.box_scores[i].home_team,
                     away_team_id |-> lg.box_scores[i].away_team,
                     projected_home |-> Projected(lg.box_scores[i], "home_projected", lg.box_scores[i].home_lineup),
                     projected_away |-> Projected(lg.box_scores[i], "away_projected", lg.box_scores[i].away_lineup)]]
    IN Exported("matchups_week_" \o Str(week) \o ".csv", DataFrame(rows, MatchupColumns))

PlayerColumns == <<"week", "on_team_id", "player_id", "name", "position", "slot", "proj_points">>

_player_to_row(p, team_id, week) ==
    [week |-> week, on_team_id |-> team_id,
     player_id |-> Attr(p, "playerId", NoneV),
     name |-> Attr(p, "name", NoneV),
     position |-> Attr(p, "position", NoneV),
     slot |-> Attr(p, "slot_position", NoneV),
     proj_points |-> Proj(p)]

\* next((bs for bs in bs_list if team plays in bs), None), as <<>> or <<bs>>
FirstBoxScore(lg, team_id) ==
    LET plays == {i \in DOMAIN lg.box_scores :
                     lg.box_scores[i].home_team = team_id \/ lg.box_scores[i].away_team = team_id}
    IN IF plays = {} THEN <<>>
       ELSE <<lg.box_scores[CHOOSE i \in plays : \A j \in plays : i <= j]>>

\* one pass of export_rosters' "for team in league.teams"
RosterRows(lg, team, week) ==
    LET bs == FirstBoxScore(lg, team.team_id)
        players == IF bs = <<>> THEN Attr(team, "roster", <<>>)
                   ELSE IF bs[1].home_team = team.team_id THEN bs[1].home_lineup
                   ELSE bs[1].away_lineup
    IN [i \in DOMAIN players |-> _player_to_row(players[i], <<team.team_id>>, week)]

export_rosters(lg, scoring_period) ==
    LET week == WeekOf(lg, scoring_period)
        rows == Concat([i \in DOMAIN lg.teams |-> RosterRows(lg, lg.teams[i], week)])
    IN Exported("rosters_week_" \o Str(week) \o ".csv", DataFrame(rows, PlayerColumns))

\* mutant of IsStarter: every player is marked a starter
IsStarterAlways(player, starters) == TRUE

\* "player in starters"
IsStarter(player, starters) == player \in Range(starters)

\* one pass of export_current_team_rosters' "for team in league.teams"
CurrentRosterRows(lg, team, week) ==
    LET lu == _lineup_for_team(lg, team.team_id)
        players == lu.starters \o lu.bench
    IN [i \in DOMAIN players |->
           [week |-> week, on_team_id |-> <<team.team_id>>,
            player_id |-> Attr(players[i], "playerId", NoneV),
            name |-> Attr(players[i], "name", NoneV),
            position |-> Attr(players[i], "position", NoneV),
            slot |-> Attr(players[i], "slot_position", NoneV),
            proj_points |-> Proj(players[i]),
            team_name |-> team.team_name,
            is_starter |-> IsStarter(players[i], lu.starters)]]

export_current_team_rosters(lg) ==
    LET week == Attr(lg, "current_week", <<>>)
        rows == Concat([i \in DOMAIN lg.teams |-> CurrentRosterRows(lg, lg.teams[i], week)])
    IN Exported("current_team_rosters.csv", DataFrame(rows, PlayerColumns \o <<"team_name", "is_starter">>))

\* league.free_agents(size=..., position=pos); a position the provider does
\* not know raises
FreeAgentsCall(lg, pos) ==
    IF pos \in DOMAIN lg.free_agents THEN lg.free_agents[pos]
    ELSE [raises |-> TRUE, players |-> <<>>]

\* one pass of export_free_agents' "for pos in positions"
FreeAgentRows(lg, pos, week) ==
    LET fas == FreeAgentsCall(lg, pos)
    IN IF fas.raises THEN <<>>
       ELSE [i \in DOMAIN fas.players |->
                [week |-> week, on_team_id |-> <<>>,
                 player_id |-> Attr(fas.players[i], "playerId", NoneV),
                 name |-> Attr(fas.players[i], "name", NoneV),
                 position |-> Attr(fas.players[i], "position", NoneV),
                 slot |-> Attr(fas.players[i], "slot_position", NoneV),
                 proj_points |-> Proj(fas.players[i]),
                 fa_position |-> pos]]

\* mutant of drop_duplicates: the last row of each player is kept
drop_duplicates_keep_last(rows) ==
    Filter(rows, {i \in DOMAIN rows :
                     \A j \in (i + 1)..Len(rows) : rows[j].player_id # rows[i].player_id})

\* drop_duplicates(subset=["player_id"]): the first row of each player
drop_duplicates(rows) ==
    Filter(rows, {i \in DOMAIN rows : \A j \in 1..(i - 1) : rows[j].player_id # rows[i].player_id})

\* mutant of export_free_agents: the first failure ends the loop
ExportFreeAgentsUntilFailure(lg, positions) ==
    LET week == Attr(lg, "current_week", <<>>)
        before == {i \in DOMAIN positions :
                      \A j \in 1..i : ~FreeAgentsCall(lg, positions[j]).raises}
        rows == Concat([i \in DOMAIN positions |->
                           IF i \in before THEN FreeAgentRows(lg, positions[i], week) ELSE <<>>])
    IN Exported("free_agents.csv", DataFrame(drop_duplicates(rows), PlayerColumns \o <<"fa_position">>))

export_free_agents(lg, positions) ==
    LET week == Attr(lg, "current_week", <<>>)
        rows == Concat([i \in DOMAIN positions |-> FreeAgentRows(lg, positions[i], week)])
    IN Exported("free_agents.csv", DataFrame(drop_duplicates(rows), PlayerColumns \o <<"fa_position">>))

(***************************************************************************)
(* export_upcoming_pro_schedule.  league.pro_schedule is what              *)
(* _get_all_pro_schedule() returns, in the order its loops visit it: per   *)
(* team the games listed, each with its week.  The date of a game is the   *)
(* hour it starts, counted in UTC, or <<>> when it cannot be parsed; a day *)
(* is a day number, day d being the Eastern Time hours 24d .. 24d + 23.    *)
(* Eastern Time is taken five hours behind UTC.                            *)
(***************************************************************************)
\* mutant of EasternDay: the date is read in UTC
UtcDay(hour) == hour \div 24

\* datetime...astimezone(tz_et).date()
EasternDay(hour) == (hour - 5) \div 24

RECURSIVE ScheduleLoop(_, _, _, _)
\* the rows after the games listed, from the rows and the ids seen so far
ScheduleLoop(games, seen, rows, day) ==
    IF games = <<>> THEN rows
    ELSE LET g == Head(games)
         IN IF g.gameId \in seen \/ g.date = <<>> \/ EasternDay(g.date[1]) < day
            THEN ScheduleLoop(Tail(games), seen, rows, day)
            ELSE ScheduleLoop(Tail(games), seen \cup {g.gameId},
                              Append(rows, [week |-> g.week, game_id |-> g.gameId,
                                            game_date |-> EasternDay(g.date[1])]),
                              day)

ScheduleColumns == <<"week", "game_id", "game_date">>

export_upcoming_pro_schedule(lg, day) ==
    LET rows == ScheduleLoop(Concat(Attr(lg, "pro_schedule", <<>>)), {}, <<>>, day)
        keys == [i \in DOMAIN rows |-> <<rows[i].game_date, rows[i].game_id>>]
        sorted == sort_values(DataFrame(rows, ScheduleColumns), <<"game_date", "game_id">>, keys)
    IN IF sorted.raises # NoneV THEN sorted ELSE Exported("pro_schedule_upcoming.csv", sorted.df)

SettingsColumns == <<"setting", "value">>

\* league.settings is <<>> (None) or <<settings>>, settings the pairs of
\* vars(settings).items()
export_league_settings(lg) ==
    LET settings == Attr(lg, "settings", <<>>)
        rows == IF settings = <<>> THEN <<>>
                ELSE [i \in DOMAIN settings[1] |->
                         [setting |-> settings[1][i][1], value |-> settings[1][i][2]]]
    IN Exported("league_settings.txt", DataFrame(rows, SettingsColumns))

(***************************************************************************)
(* Inputs of the start/sit rule.                                           *)
(***************************************************************************)
MaxLineup == 3

\* a lineup of attribute records, named by team and place in the lineup
Named(team, attrs) ==
    [i \in DOMAIN attrs |->
        [name |-> <<team, i>>,
         position |-> attrs[i].position,
         slot_position |-> attrs[i].slot_position,
         projected_points |-> attrs[i].projected_points,
         eligibleSlots |-> attrs[i].eligibleSlots]]

\* projections and thresholds around the rule's comparison
NumericPlayers ==
    [position : {"RB", NoneV},
     slot_position : {"RB", "BE"},
     projected_points : {<<>>, <<8000>>, <<9496>>},
     eligibleSlots : {<<>>}]

ThresholdConfigs ==
    {[start_sit_threshold |-> 1500, per_pos_thresholds |-> <<>>],
     [start_sit_threshold |-> 1500, per_pos_thresholds |-> [p \in {"RB"} |-> 9000]],
     [start_sit_threshold |-> 9000, per_pos_thresholds |-> [p \in {"rb", ""} |-> 1500]]}

\* positions, slots, eligibility tags and locks
EligibilityPlayers ==
    [position : {"RB", "dst", "D/ST"},
     slot_position : {"FLEX", "BE", "IR"},
     projected_points : {<<9496>>},
     eligibleSlots : {<<>>, <<"RB", "BE">>}]

LockConfigs == {<<>>, <<"DST">>}

\* a team of league.teams
Team(id) == [team_id |-> id, team_name |-> <<"Team", id>>]

\* the players the provider returns for position pos, named by position and
\* place, from their projections
FreeAgents(pos, projections) ==
    [i \in DOMAIN projections |->
        [name |-> <<pos, i>>, position |-> pos,
         projected_points |-> projections[i], percent_owned |-> <<>>]]

Returns(pos, projections) == [raises |-> FALSE, players |-> FreeAgents(pos, projections)]

\* two free agents at every position
FewFreeAgents == [pos \in Range(FreeAgentPositions) |-> Returns(pos, <<<<4000>>, <<9496>>>>)]

\* teams 1 and 2 in one box score, team 1 at home
OneMatchup(mine, theirs) ==
    [teams |-> <<Team(1), Team(2)>>,
     box_scores |-> <<[home_team |-> 1, away_team |-> 2,
                       home_lineup |-> Named(1, mine),
                       away_lineup |-> Named(2, theirs)]>>,
     free_agents |-> FewFreeAgents]

Outputs0 ==
    /\ called = <<>>
    /\ advice = <<>>
    /\ eligible_bench = <<>>
    /\ thresh = <<>>
    /\ strength = <<>>
    /\ trades = <<>>
    /\ best = <<>>
    /\ adds = <<>>
    /\ advice_items = <<>>
    /\ report = <<>>
    /\ returned = <<>>
    /\ files = <<>>
    /\ raised = NoneV
    /\ today = 2
    /\ fetched = <<>>
    /\ asked = {}

InputsNumeric ==
    /\ \E mine \in SeqsUpTo(NumericPlayers, MaxLineup) : league = OneMatchup(mine, <<>>)
    /\ \E t \in ThresholdConfigs :
          cfg = [my_team_id |-> <<1>>, lock_positions |-> <<>>,
                 start_sit_threshold |-> t.start_sit_threshold,
                 per_pos_thresholds |-> t.per_pos_thresholds]

InputsEligibility ==
    /\ \E mine \in SeqsUpTo(EligibilityPlayers, MaxLineup) : league = OneMatchup(mine, <<>>)
    /\ \E l \in LockConfigs :
          cfg = [my_team_id |-> <<1>>, lock_positions |-> l,
                 start_sit_threshold |-> 0,
                 per_pos_thresholds |-> <<>>]

InputsStartSit == InputsNumeric \/ InputsEligibility

(***************************************************************************)
(* Inputs of the trade rule: one matchup with every small lineup of the    *)
(* managed team, and leagues of several matchups.                          *)
(***************************************************************************)
TradePlayers ==
    [position : {"RB", "wr"},
     slot_position : {"RB", "BE"},
     projected_points : {<<>>, <<4000>>, <<12001>>},
     eligibleSlots : {<<>>}]

Player(pos, slot, proj) ==
    [position |-> pos, slot_position |-> slot, projected_points |-> proj,
     eligibleSlots |-> <<>>]

OpponentLineups ==
    {<<Player("RB", "RB", <<4001>>), Player("WR", "WR", <<12000>>),
       Player("WR", "BE", <<4000>>)>>,
     <<Player("rb", "FLEX", <<12001>>), Player("RB", "IR", <<4000>>),
       Player("WR", "WR", <<4001>>),
       Player("dst", "D/ST", <<4000>>), Player("D/ST", "FLEX", <<4001>>),
       Player(NoneV, "FLEX", <<4000>>), Player(NoneV, "BE", <<4000>>)>>}

InputsMatchup ==
    /\ \E mine \in SeqsUpTo(TradePlayers, MaxLineup) : \E theirs \in OpponentLineups :
          league = OneMatchup(mine, theirs)
    /\ cfg = [my_team_id |-> <<1>>, lock_positions |-> <<>>,
              start_sit_threshold |-> 1500, per_pos_thresholds |-> <<>>]

MaxTeams == 4

\* a team that starts one strong player at each position of strong and, with
\* bench, also holds one bench player at each of them
TeamProfiles == [strong : {{"RB", "WR"}, {"QB", "TE"}}, bench : BOOLEAN]

ProfileLineup(pr) ==
    LET at == {i \in DOMAIN TradePositions : TradePositions[i] \in pr.strong}
        strong == Filter(TradePositions, at)
    IN [i \in DOMAIN strong |-> Player(strong[i], strong[i], <<12001>>)]
       \o (IF pr.bench
           THEN [i \in DOMAIN strong |-> Player(strong[i], "BE", <<14000>>)]
           ELSE <<>>)

LeagueLocks == {<<>>, <<"rb">>, <<"QB", "te">>}

\* teams 1..n in league.teams order, team 2i-1 at home to team 2i; with n odd,
\* team n plays in no box score
LeagueOf(n, profile) ==
    [teams |-> [i \in 1..n |-> Team(i)],
     box_scores |-> [i \in 1..(n \div 2) |->
         [home_team |-> 2 * i - 1, away_team |-> 2 * i,
          home_lineup |-> Named(2 * i - 1, ProfileLineup(profile[2 * i - 1])),
          away_lineup |-> Named(2 * i, ProfileLineup(profile[2 * i]))]],
     free_agents |-> FewFreeAgents]

InputsLeagues ==
    \E n \in 2..MaxTeams :
        /\ \E profile \in [1..(2 * (n \div 2)) -> TeamProfiles] : league = LeagueOf(n, profile)
        /\ \E me \in {<<>>} \cup {<<t>> : t \in 1..n} : \E l \in LeagueLocks :
              cfg = [my_team_id |-> me, lock_positions |-> l,
                     start_sit_threshold |-> 1500, per_pos_thresholds |-> <<>>]

InputsTrades == InputsMatchup \/ InputsLeagues

(***************************************************************************)
(* Inputs of the free-agent rule: every short list of free agents at one   *)
(* position, and every mix of fetch results over the six positions.        *)
(***************************************************************************)
MaxFreeAgents == 6

FreeAgentProjections == {<<>>, <<4000>>, <<9496>>}

InputsFreeAgentsAtOnePosition ==
    /\ \E projections \in SeqsUpTo(FreeAgentProjections, MaxFreeAgents) :
          league = [OneMatchup(<<>>, <<>>) EXCEPT
                       !.free_agents = [pos \in Range(FreeAgentPositions) |->
                           IF pos = "RB" THEN Returns(pos, projections)
                           ELSE Returns(pos, <<>>)]]
    /\ cfg = [my_team_id |-> <<1>>, lock_positions |-> <<>>,
              start_sit_threshold |-> 1500, per_pos_thresholds |-> <<>>]

\* what the fetch at pos does: it raises, or returns no, three or six players
Fetch(pos, kind) ==
    CASE kind = "raises" -> [raises |-> TRUE, players |-> <<>>]
      [] kind = "none" -> Returns(pos, <<>>)
      [] kind = "few" -> Returns(pos, <<<<4000>>, <<>>, <<9496>>>>)
      [] kind = "many" -> Returns(pos, <<<<4000>>, <<9496>>, <<4000>>, <<>>, <<9496>>, <<8000>>>>)

FetchKinds == {"raises", "none", "few", "many"}

FreeAgentLocks == {<<>>, <<"rb">>, <<"DST", "K">>}

InputsFreeAgentsEverywhere ==
    /\ \E kind \in [Range(FreeAgentPositions) -> FetchKinds] :
          league = [OneMatchup(<<>>, <<>>) EXCEPT
                       !.free_agents = [pos \in Range(FreeAgentPositions) |->
                                           Fetch(pos, kind[pos])]]
    /\ \E l \in FreeAgentLocks :
          cfg = [my_team_id |-> <<1>>, lock_positions |-> l,
                 start_sit_threshold |-> 1500, per_pos_thresholds |-> <<>>]

InputsFreeAgents == InputsFreeAgentsAtOnePosition \/ InputsFreeAgentsEverywhere

(***************************************************************************)
(* The calls main makes (lines 573-575), one action per call.              *)
(***************************************************************************)
\* recommend_start_sit and recommend_trades return before any call of
\* league.box_scores when my_team_id is None, and call it otherwise
AsksBoxScores(c) == c.my_team_id # <<>>

RecommendStartSit ==
    /\ pc = "recommend_start_sit"
    /\ pc' = "free_agent_targets"
    /\ called' = Append(called, "recommend_start_sit")
    /\ advice' = recommend_start_sit(league, cfg)
    /\ eligible_bench' = EligibleBenchTrace(league, cfg)
    /\ thresh' = ThreshTrace(league, cfg)
    /\ advice_items' = advice_items \o recommend_start_sit(league, cfg)
    /\ asked' = IF AsksBoxScores(cfg) THEN asked \cup {"recommend_start_sit"} ELSE asked
    /\ UNCHANGED <<league, cfg, strength, trades, best, adds, report, returned, files, raised, today, fetched>>

\* recommend_start_sit applied to the inputs of the start/sit rule
InitStartSit == InputsStartSit /\ Outputs0 /\ pc = "recommend_start_sit"

NextStartSit == RecommendStartSit

SpecStartSit == InitStartSit /\ [][NextStartSit]_vars

RecommendTrades ==
    /\ pc = "recommend_trades"
    /\ pc' = "write_advice_markdown"
    /\ called' = Append(called, "recommend_trades")
    /\ trades' = recommend_trades(league, cfg)
    /\ strength' = StrengthTrace(league, cfg)
    /\ advice_items' = advice_items \o recommend_trades(league, cfg)
    /\ asked' = IF AsksBoxScores(cfg) THEN asked \cup {"recommend_trades"} ELSE asked
    /\ UNCHANGED <<league, cfg, advice, eligible_bench, thresh, best, adds, report, returned, files, raised, today, fetched>>

\* recommend_trades applied to the inputs of the trade rule
InitTrades == InputsTrades /\ Outputs0 /\ pc = "recommend_trades"

NextTrades == RecommendTrades

SpecTrades == InitTrades /\ [][NextTrades]_vars

FreeAgentTargets ==
    /\ pc = "free_agent_targets"
    /\ pc' = "recommend_trades"
    /\ called' = Append(called, "free_agent_targets")
    /\ adds' = free_agent_targets(league, cfg)
    /\ best' = BestTrace(league, cfg)
    /\ advice_items' = advice_items \o free_agent_targets(league, cfg)
    /\ UNCHANGED <<league, cfg, advice, eligible_bench, thresh, strength, trades, report, returned, files, raised, today, fetched, asked>>

WriteAdviceMarkdown ==
    /\ pc = "write_advice_markdown"
    /\ pc' = "done"
    /\ called' = Append(called, "write_advice_markdown")
    /\ report' = write_advice_markdown(advice_items)
    /\ UNCHANGED <<league, cfg, advice, eligible_bench, thresh, strength, trades, best, adds, advice_items, returned, files, raised, today, fetched, asked>>

\* an exporter called at step: its file is written and main goes on to
\* next, or its exception ends the run
Export(step, next, result) ==
    /\ pc = step
    /\ called' = Append(called, step)
    /\ IF result.raises = NoneV
       THEN /\ files' = to_csv(files, result.name, result.df)
            /\ pc' = next
            /\ raised' = raised
       ELSE /\ files' = files
            /\ pc' = "aborted"
            /\ raised' = result.raises
    /\ UNCHANGED <<league, cfg, advice, eligible_bench, thresh, strength, trades, best, adds, advice_items, report, returned, today, fetched, asked>>

\* load_config: advice.get("positions", [...])
DefaultPositions == <<"QB", "RB", "WR", "TE", "D/ST", "K", "FLEX", "OP">>

\* main: week = cfg.scoring_period or getattr(league, "current_week", None)
MainWeek == WeekOf(league, Attr(cfg, "scoring_period", <<>>))

ExportStandings == Export("export_standings", "export_matchups", export_standings(league))

ExportMatchups == Export("export_matchups", "export_rosters", export_matchups(league, MainWeek))

ExportRosters == Export("export_rosters", "export_current_team_rosters", export_rosters(league, MainWeek))

ExportCurrentTeamRosters == Export("export_current_team_rosters", "export_free_agents", export_current_team_rosters(league))

ExportFreeAgents == Export("export_free_agents", "export_upcoming_pro_schedule", export_free_agents(league, Attr(cfg, "positions", DefaultPositions)))

ExportUpcomingProSchedule == Export("export_upcoming_pro_schedule", "export_league_settings", export_upcoming_pro_schedule(league, today))

ExportLeagueSettings == Export("export_league_settings", "recommend_start_sit", export_league_settings(league))

\* free_agent_targets applied to the inputs of the free-agent rule
InitFreeAgents == InputsFreeAgents /\ Outputs0 /\ pc = "free_agent_targets"

NextFreeAgents == FreeAgentTargets

SpecFreeAgents == InitFreeAgents /\ [][NextFreeAgents]_vars

\* main: the three rules in the order of lines 573-575 and the report of line
\* 577, on the inputs with locks, whole leagues and free agents everywhere
InputsMain ==
    \/ InputsEligibility /\ cfg.lock_positions # <<>>
    \/ InputsLeagues
    \/ InputsFreeAgentsEverywhere

Init == InputsMain /\ Outputs0 /\ pc = "recommend_start_sit"

Next == RecommendStartSit \/ FreeAgentTargets \/ RecommendTrades \/ WriteAdviceMarkdown

Spec == Init /\ [][Next]_vars

(***************************************************************************)
(* espn_extractor/league_history.py: extract_team_records.  Here cfg is    *)
(* the config object of the call (an attribute that is missing is NoneV)   *)
(* and league.seasons[year] is what fetching the league of that year does: *)
(* it raises, or gives the teams of the season.  espn_api is installed     *)
(* (FF_LEAGUE is not None).  A file is its header, its delimiter and its   *)
(* rows.                                                                   *)
(***************************************************************************)
_HEADERS == <<"owner", "year", "team_name", "win", "loss", "draws", "final_standing", "points_for", "points_against", "acquisitions", "trades", "drops", "streak_length", "streak_type", "playoff_seed">>

\* "not value" of an attribute
Falsy(v) == v = NoneV \/ v = ""

\* os.path.join(dir, file)
JoinPath(dir, file) == IF dir = "" THEN file ELSE dir \o "/" \o file

\* getattr(obj, name, default) of an attribute that may be missing
GetAttr(v, default) == IF v = NoneV THEN default ELSE v

\* mutant of Normalized: out_file and delimiter are set whatever they were
NormalizedAlways(c) ==
    [c EXCEPT
        !.out_file = JoinPath(GetAttr(c.output_dir, ""), GetAttr(c.history_file, "league_history.csv")),
        !.delimiter = GetAttr(c.format, ",")]

\* the config after the normalisation of lines 363-368
Normalized(c) ==
    [c EXCEPT
        !.out_file = IF Falsy(c.out_file)
                     THEN JoinPath(GetAttr(c.output_dir, ""), GetAttr(c.history_file, "league_history.csv"))
                     ELSE c.out_file,
        !.delimiter = IF Falsy(c.delimiter) THEN GetAttr(c.format, ",") ELSE c.delimiter]

\* the row of one team; of the fifteen columns the model keeps those that
\* tell rows apart
HistoryRow(team, year) ==
    [owner |-> team.owner, year |-> year, team_name |-> team.team_name, win |-> team.wins]

\* the rows of the offline fixture, by the same columns
_SAMPLE_HISTORY_2018 ==
    <<[owner |-> "jessie marshall", year |-> 2018, team_name |-> "Team 1", win |-> 10],
      [owner |-> "Bailey Zambuto", year |-> 2018, team_name |-> "Team 2", win |-> 6],
      [owner |-> "Jhonatan De la Cruz", year |-> 2018, team_name |-> "FANTASY GOD", win |-> 2],
      [owner |-> "Leon Law", year |-> 2018, team_name |-> "THE KING", win |-> 8],
      [owner |-> "Eddie Rivera", year |-> 2018, team_name |-> "Team 5", win |-> 4],
      [owner |-> "Tresa Omara", year |-> 2018, team_name |-> "Team Viking Queen", win |-> 5],
      [owner |-> "james czarnowski", year |-> 2018, team_name |-> "Team 7", win |-> 10],
      [owner |-> "Michael Dungo", year |-> 2018, team_name |-> "Team 8", win |-> 9],
      [owner |-> "Lisa Mizrachi", year |-> 2018, team_name |-> "Team Mizrachi", win |-> 6],
      [owner |-> "Wes Harris", year |-> 2018, team_name |-> "Team 10", win |-> 5]>>

\* mutant of SeasonYears: the latest season first
SeasonYearsDescending(c) ==
    [i \in 1..(IF c.end_year < c.start_year THEN 0 ELSE c.end_year - c.start_year + 1) |->
        c.end_year + 1 - i]

\* range(config.start_year, config.end_year + 1)
SeasonYears(c) ==
    [i \in 1..(IF c.end_year < c.start_year THEN 0 ELSE c.end_year - c.start_year + 1) |->
        c.start_year + i - 1]

\* one pass of "for year in range(...)": nothing when the fetch raises
SeasonRows(seasons, year) ==
    IF seasons[year].raises THEN <<>>
    ELSE [i \in DOMAIN seasons[year].teams |-> HistoryRow(seasons[year].teams[i], year)]

_iter_production_rows(c, seasons) ==
    LET years == SeasonYears(c)
    IN Concat([i \in DOMAIN years |-> SeasonRows(seasons, years[i])])

\* _write_rows(path, delimiter, rows), on the files written so far
_write_rows(fs, path, delimiter, rows) ==
    [n \in DOMAIN fs \cup {path} |->
        IF n = path THEN [header |-> _HEADERS, delimiter |-> delimiter, rows |-> rows]
        ELSE fs[n]]

\* mutant of _write_offline_fixture: the sample rows of the seasons asked for
OfflineFixtureOfSeasons(fs, config) ==
    LET wanted == {i \in DOMAIN _SAMPLE_HISTORY_2018 :
                      /\ config.start_year <= _SAMPLE_HISTORY_2018[i].year
                      /\ _SAMPLE_HISTORY_2018[i].year <= config.end_year}
    IN _write_rows(fs, config.out_file, config.delimiter, Filter(_SAMPLE_HISTORY_2018, wanted))

_write_offline_fixture(fs, config) ==
    _write_rows(fs, config.out_file, config.delimiter, _SAMPLE_HISTORY_2018)

extract_team_records(fs, c, seasons, test_mode) ==
    LET config == Normalized(c)
    IN IF test_mode THEN _write_offline_fixture(fs, config)
       ELSE _write_rows(fs, config.out_file, config.delimiter, _iter_production_rows(config, seasons))

\* mutant of SeasonsFetched: the seasons are fetched in test mode too
SeasonsFetchedAlways(c, test_mode) == SeasonYears(Normalized(c))

\* the seasons for which FF_LEAGUE(...).fetch_league() is called: none in
\* test mode, which returns before _iter_production_rows
SeasonsFetched(c, test_mode) == IF test_mode THEN <<>> ELSE SeasonYears(Normalized(c))

ExtractTeamRecords ==
    /\ pc = "extract_team_records"
    /\ pc' = "done"
    /\ \E test_mode \in BOOLEAN :
          /\ called' = Append(called, IF test_mode THEN "extract_team_records(test_mode=True)"
                                      ELSE "extract_team_records")
          /\ files' = extract_team_records(files, cfg, league.seasons, test_mode)
          /\ fetched' = fetched \o SeasonsFetched(cfg, test_mode)
          /\ returned' = Append(returned, [test_mode |-> test_mode, config |-> cfg,
                                           file |-> files'[Normalized(cfg).out_file]])
    /\ cfg' = Normalized(cfg)
    /\ UNCHANGED <<league, advice, eligible_bench, thresh, strength, trades, best, adds, advice_items, report, raised, today, asked>>

MaxSeasons == 3

\* the seasons the provider is asked about
Years == 2018..(2017 + MaxSeasons)

HistoryTeam(year, i) == [team_name |-> <<"Team", i>>, owner |-> <<"Owner", i>>, wins |-> year - 2010 - i]

\* the fetch of a season raises, or gives no, one or two teams
SeasonResults(year) ==
    {[raises |-> TRUE, teams |-> <<>>]}
    \cup {[raises |-> FALSE, teams |-> [i \in 1..n |-> HistoryTeam(year, i)]] : n \in 0..2}

\* the config of the command line, and the older style without out_file
\* and delimiter
HistoryConfigs ==
    {[start_year |-> a, end_year |-> b, out_file |-> f.out_file, delimiter |-> f.delimiter,
      output_dir |-> f.output_dir, history_file |-> f.history_file, format |-> f.format] :
        a \in Years, b \in Years,
        f \in {[out_file |-> "history.csv", delimiter |-> ",", output_dir |-> NoneV,
                history_file |-> NoneV, format |-> NoneV],
               [out_file |-> "history.psv", delimiter |-> "|", output_dir |-> NoneV,
                history_file |-> NoneV, format |-> NoneV],
               [out_file |-> NoneV, delimiter |-> NoneV, output_dir |-> "out",
                history_file |-> "history.psv", format |-> "|"],
               [out_file |-> "", delimiter |-> ",", output_dir |-> NoneV,
                history_file |-> NoneV, format |-> NoneV]}}

InputsHistory ==
    /\ \E seasons \in [Years -> UNION {SeasonResults(y) : y \in Years}] :
          /\ \A y \in Years : seasons[y] \in SeasonResults(y)
          /\ league = [seasons |-> seasons]
    /\ cfg \in HistoryConfigs

InitHistory == InputsHistory /\ Outputs0 /\ pc = "extract_team_records"

NextHistory == ExtractTeamRecords

SpecHistory == InitHistory /\ [][NextHistory]_vars

(***************************************************************************)
(* extract_team_records called again and again, in test mode and in        *)
(* production mode, each call with a config of its own: league, seasons,   *)
(* credentials, delimiter and output file vary from call to call.  The     *)
(* provider has one team in every season.                                  *)
(***************************************************************************)
MaxRuns == 2

RunConfigs ==
    {[league_id |-> id, start_year |-> start, end_year |-> 2019, espn_s2 |-> s2, swid |-> s2,
      out_file |-> out, delimiter |-> delimiter,
      output_dir |-> NoneV, history_file |-> NoneV, format |-> NoneV] :
        id \in {1, 2}, start \in {2018, 2019}, s2 \in {NoneV, "cookie"},
        out \in {"a.csv", "b.csv"}, delimiter \in {",", "|"}}

InputsRuns ==
    /\ league = [seasons |-> [y \in Years |-> [raises |-> FALSE, teams |-> <<HistoryTeam(y, 1)>>]]]
    /\ cfg \in RunConfigs

\* the next call is given a new config object
NewConfig ==
    /\ pc = "done"
    /\ Len(returned) < MaxRuns
    /\ cfg' \in RunConfigs
    /\ pc' = "extract_team_records"
    /\ UNCHANGED <<league, called, advice, eligible_bench, thresh, strength, trades, best, adds, advice_items, report, returned, files, raised, today, fetched, asked>>

InitRuns == InputsRuns /\ Outputs0 /\ pc = "extract_team_records"

NextRuns == ExtractTeamRecords \/ NewConfig

SpecRuns == InitRuns /\ [][NextRuns]_vars

(***************************************************************************)
(* Free-agent fetches that fail: export_free_agents and                    *)
(* free_agent_targets, each on its own, with every mix of fetches that     *)
(* raise, return nobody and return players; a player can be returned for   *)
(* several positions.                                                      *)
(***************************************************************************)
FreeAgent(id, pos, proj) ==
    [playerId |-> id, name |-> <<"Free agent", id>>, position |-> pos,
     projected_points |-> <<proj>>, percent_owned |-> <<>>]

\* what the provider returns for pos when it returns players
PlayersAt(pos) ==
    CASE pos = "QB" -> <<FreeAgent("q1", "QB", 9496)>>
      [] pos = "RB" -> <<FreeAgent("r1", "RB", 4000), FreeAgent("r2", "RB", 9496)>>
      [] pos = "WR" -> <<FreeAgent("w1", "WR", 8000)>>
      [] pos = "TE" -> <<FreeAgent("t1", "TE", 4000)>>
      [] pos = "D/ST" -> <<FreeAgent("d1", "D/ST", 4000)>>
      [] pos = "K" -> <<FreeAgent("k1", "K", 4000)>>
      [] pos = "FLEX" -> <<FreeAgent("w1", "WR", 8000), FreeAgent("r2", "RB", 9496),
                           FreeAgent("t1", "TE", 4000), FreeAgent("w2", "WR", 4000)>>

ProviderPositions == {"QB", "RB", "WR", "TE", "D/ST", "K", "FLEX"}

FetchOf(pos, kind) ==
    CASE kind = "raises" -> [raises |-> TRUE, players |-> <<>>]
      [] kind = "none" -> [raises |-> FALSE, players |-> <<>>]
      [] kind = "some" -> [raises |-> FALSE, players |-> PlayersAt(pos)]

PositionLists == {DefaultPositions, <<"FLEX", "RB", "QB">>}

InputsFetchFailures ==
    /\ \E kind \in [ProviderPositions -> {"raises", "none", "some"}] :
          league = [teams |-> <<>>, box_scores |-> <<>>, current_week |-> <<3>>,
                    free_agents |-> [pos \in ProviderPositions |-> FetchOf(pos, kind[pos])]]
    /\ \E positions \in PositionLists :
          cfg = [my_team_id |-> <<1>>, lock_positions |-> <<>>, start_sit_threshold |-> 1500,
                 per_pos_thresholds |-> <<>>, scoring_period |-> <<>>, positions |-> positions]

InitFetchFailures ==
    InputsFetchFailures /\ Outputs0 /\ pc \in {"export_free_agents", "free_agent_targets"}

NextFetchFailures == ExportFreeAgents \/ FreeAgentTargets

SpecFetchFailures == InitFetchFailures /\ [][NextFetchFailures]_vars

(***************************************************************************)
(* The four exporters of weekly rows, each called on its own, as a caller  *)
(* other than main may: export_matchups and export_rosters with            *)
(* cfg.scoring_period itself.                                              *)
(***************************************************************************)
CallExportMatchups ==
    Export("export_matchups", "done", export_matchups(league, cfg.scoring_period))

CallExportRosters ==
    Export("export_rosters", "done", export_rosters(league, cfg.scoring_period))

CallExportCurrentTeamRosters ==
    Export("export_current_team_rosters", "done", export_current_team_rosters(league))

CallExportFreeAgents ==
    Export("export_free_agents", "done", export_free_agents(league, cfg.positions))

WeeklyPlayers ==
    [position : {"RB"}, slot_position : {"RB", "BE", "IR"},
     projected_points : {<<4000>>}, eligibleSlots : {<<>>}]

\* a team with the roster team.roster gives: its lineup without the bench
TeamWithRoster(id, lineup) ==
    [team_id |-> id, team_name |-> <<"Team", id>>, wins |-> id, points_for |-> 100000,
     roster |-> Filter(lineup, {i \in DOMAIN lineup : lineup[i].slot_position # "BE"})]

\* teams 1 and 2 in one box score, or in none; a team 3 in no box score
WeeklyLeague(home, away, third, played) ==
    [teams |-> <<TeamWithRoster(1, Named(1, home)), TeamWithRoster(2, Named(2, away))>>
               \o (IF third THEN <<TeamWithRoster(3, Named(3, away))>> ELSE <<>>),
     box_scores |-> IF played
                    THEN <<[home_team |-> 1, away_team |-> 2,
                            home_lineup |-> Named(1, home), away_lineup |-> Named(2, away)]>>
                    ELSE <<>>,
     free_agents |-> [pos \in ProviderPositions |-> FetchOf(pos, IF pos = "K" THEN "raises" ELSE "some")]]

WeeklySteps == {"export_matchups", "export_rosters", "export_current_team_rosters", "export_free_agents"}

CurrentWeeks == {<<3>>, <<7>>}

ScoringPeriods == {<<>>, <<0>>, <<3>>, <<5>>}

InputsWeekly ==
    /\ \E home \in SeqsUpTo(WeeklyPlayers, MaxLineup) : \E third, played \in BOOLEAN :
       \E week \in CurrentWeeks :
          league = [current_week |-> week]
                   @@ WeeklyLeague(home, <<Player("WR", "WR", <<8000>>), Player("WR", "BE", <<9496>>)>>,
                                   third, played)
    /\ \E sp \in ScoringPeriods :
          cfg = [my_team_id |-> <<1>>, lock_positions |-> <<>>, start_sit_threshold |-> 1500,
                 per_pos_thresholds |-> <<>>, scoring_period |-> sp, positions |-> DefaultPositions]

InitWeekly == InputsWeekly /\ Outputs0 /\ pc \in WeeklySteps

NextWeekly ==
    CallExportMatchups \/ CallExportRosters \/ CallExportCurrentTeamRosters \/ CallExportFreeAgents

SpecWeekly == InitWeekly /\ [][NextWeekly]_vars

(***************************************************************************)
(* Inputs of export_upcoming_pro_schedule: games 1..MaxGames, each with    *)
(* one date; one team lists some of them in ascending order of id and a    *)
(* second team lists some in descending order.                             *)
(***************************************************************************)
MaxGames == 3

\* a date that cannot be parsed; the evening before today, already today in
\* UTC; today; a later day
GameDates == {<<>>, <<50>>, <<60>>, <<100>>}

Listing(ids, date, descending) ==
    LET n == Cardinality(ids)
        nth(k) == CHOOSE g \in ids : Cardinality({h \in ids : h < g}) = k - 1
    IN [k \in 1..n |->
           LET g == nth(IF descending THEN n + 1 - k ELSE k)
           IN [week |-> (g % 2) + 1, gameId |-> g, date |-> date[g]]]

InputsSchedule ==
    /\ \E date \in [1..MaxGames -> GameDates] : \E first, second \in SUBSET (1..MaxGames) :
          league = [teams |-> <<>>, box_scores |-> <<>>, current_week |-> <<3>>,
                    free_agents |-> <<>>,
                    pro_schedule |-> <<Listing(first, date, FALSE), Listing(second, date, TRUE)>>]
    /\ cfg = [my_team_id |-> <<1>>, lock_positions |-> <<>>, start_sit_threshold |-> 1500,
              per_pos_thresholds |-> <<>>, scoring_period |-> <<>>, positions |-> <<>>]

InitSchedule == InputsSchedule /\ Outputs0 /\ pc = "export_upcoming_pro_schedule"

NextSchedule == ExportUpcomingProSchedule

SpecSchedule == InitSchedule /\ [][NextSchedule]_vars

(***************************************************************************)
(* The daily run: main from load_config to the advice report.  Before      *)
(* load_config, cfg is the content of config.toml, its tables flattened; a *)
(* key that is not in the file is not in the record.  write_workbook is    *)
(* left out.                                                               *)
(***************************************************************************)
RequiredKeys == {"league_id", "season_year"}

load_config(toml) ==
    [league_id |-> toml.league_id,
     season_year |-> toml.season_year,
     scoring_period |-> Attr(toml, "scoring_period", <<>>),
     my_team_id |-> Attr(toml, "my_team_id", <<>>),
     start_sit_threshold |-> Attr(toml, "start_sit_threshold", 1500),
     per_pos_thresholds |-> Attr(toml, "per_position_thresholds", <<>>),
     lock_positions |-> Attr(toml, "advice_lock_positions", <<>>),
     positions |-> Attr(toml, "positions", DefaultPositions)]

\* league["league_id"] / league["season_year"] of a key that is missing
\* raises KeyError
LoadConfig ==
    /\ pc = "load_config"
    /\ called' = Append(called, "load_config")
    /\ IF RequiredKeys \subseteq DOMAIN cfg
       THEN cfg' = load_config(cfg) /\ pc' = "export_standings" /\ raised' = raised
       ELSE cfg' = cfg /\ pc' = "aborted" /\ raised' = "KeyError"
    /\ UNCHANGED <<league, advice, eligible_bench, thresh, strength, trades, best, adds, advice_items, report, returned, files, today, fetched, asked>>

TomlFiles ==
    {[league_id |-> 1, season_year |-> 2025, my_team_id |-> <<1>>],
     [league_id |-> 1, season_year |-> 2025, my_team_id |-> <<1>>,
      advice_lock_positions |-> <<"wr">>, positions |-> <<"QB", "RB">>, scoring_period |-> <<5>>],
     [season_year |-> 2025, my_team_id |-> <<1>>],
     [league_id |-> 1]}

DailyLineups ==
    {<<>>,
     <<Player("RB", "RB", <<8000>>), Player("RB", "BE", <<9496>>)>>,
     <<Player("RB", "RB", <<12001>>), Player("WR", "WR", <<4000>>),
       Player("RB", "BE", <<4000>>), Player("WR", "IR", <<6000>>)>>,
     <<Player("WR", "WR", <<12001>>), Player("RB", "FLEX", <<4000>>),
       Player("WR", "BE", <<4000>>)>>}

\* all fetches of free agents fail, all return nobody, or all but one
\* return players
DailyFreeAgents ==
    {[pos \in ProviderPositions |-> FetchOf(pos, "raises")],
     [pos \in ProviderPositions |-> FetchOf(pos, "none")],
     [pos \in ProviderPositions |-> FetchOf(pos, IF pos = "K" THEN "raises" ELSE "some")]}

\* no game listed, only games before today, and games of today and later
\* listed by both teams
DailySchedules ==
    {<<>>,
     <<Listing({1}, <<<<50>>>>, FALSE), Listing({1}, <<<<50>>>>, TRUE)>>,
     <<Listing({1, 2, 3}, <<<<100>>, <<60>>, <<50>>>>, FALSE),
       Listing({1, 2}, <<<<100>>, <<60>>, <<50>>>>, TRUE)>>}

DailySettings == {<<>>, <<<<<<"name", "Test League">>, <<"team_count", "8">>>>>>}

\* a league of no teams, and the leagues of two or three teams
DailyLeagues ==
    {[teams |-> <<>>, box_scores |-> <<>>, free_agents |-> fa, current_week |-> <<3>>,
      pro_schedule |-> sched, settings |-> st] :
        fa \in DailyFreeAgents, sched \in DailySchedules, st \in DailySettings}
    \cup
    {[current_week |-> <<3>>, pro_schedule |-> sched, settings |-> st]
     @@ [WeeklyLeague(home, away, third, played) EXCEPT !.free_agents = fa] :
        home \in DailyLineups, away \in DailyLineups, third \in BOOLEAN, played \in BOOLEAN,
        fa \in DailyFreeAgents, sched \in DailySchedules, st \in DailySettings}

InputsDaily == league \in DailyLeagues /\ cfg \in TomlFiles

InitMain == InputsDaily /\ Outputs0 /\ pc = "load_config"

NextMain ==
    \/ LoadConfig
    \/ ExportStandings
    \/ ExportMatchups
    \/ ExportRosters
    \/ ExportCurrentTeamRosters
    \/ ExportFreeAgents
    \/ ExportUpcomingProSchedule
    \/ ExportLeagueSettings
    \/ RecommendStartSit
    \/ FreeAgentTargets
    \/ RecommendTrades
    \/ WriteAdviceMarkdown

SpecMain == InitMain /\ [][NextMain]_vars

(***************************************************************************)
(* Every operation that is handed the snapshot or a configuration: the     *)
(* exporters, the rules and the report on the leagues of the daily run     *)
(* with a loaded configuration, and extract_team_records on its configs.   *)
(***************************************************************************)
InputsLoaded ==
    /\ league \in DailyLeagues
    /\ \E toml \in TomlFiles : RequiredKeys \subseteq DOMAIN toml /\ cfg = load_config(toml)

InitOperations ==
    \/ InputsLoaded /\ Outputs0 /\ pc = "export_standings"
    \/ InitHistory

NextOperations ==
    \/ ExportStandings
    \/ ExportMatchups
    \/ ExportRosters
    \/ ExportCurrentTeamRosters
    \/ ExportFreeAgents
    \/ ExportUpcomingProSchedule
    \/ ExportLeagueSettings
    \/ RecommendStartSit
    \/ FreeAgentTargets
    \/ RecommendTrades
    \/ WriteAdviceMarkdown
    \/ ExtractTeamRecords

SpecOperations == InitOperations /\ [][NextOperations]_vars

(***************************************************************************)
(* The rules and the report with data missing: no managed team configured, *)
(* a managed team that plays in no box score, a league without box scores, *)
(* and a provider without free agents.  Team 3 plays in no box score.      *)
(***************************************************************************)
\* no lineup; three starters that are all outscored by the bench; starters
\* without a bench
SkipLineups ==
    {<<>>,
     <<Player("RB", "RB", <<4000>>), Player("WR", "WR", <<4000>>), Player("RB", "RB", <<8000>>),
       Player("RB", "BE", <<12001>>), Player("WR", "IR", <<6000>>)>>,
     <<Player("RB", "RB", <<4000>>), Player("WR", "WR", <<4000>>)>>}

NoFreeAgents == [pos \in Range(FreeAgentPositions) |-> Returns(pos, <<>>)]

SkipLeagues ==
    {[LeagueOf(3, profile) EXCEPT !.free_agents = fa] :
        profile \in [1..2 -> TeamProfiles], fa \in {FewFreeAgents, NoFreeAgents}}
    \cup
    {[teams |-> <<Team(1), Team(2), Team(3)>>,
      box_scores |-> IF played
                     THEN <<[home_team |-> 2, away_team |-> 1,
                             home_lineup |-> Named(2, theirs), away_lineup |-> Named(1, mine)]>>
                     ELSE <<>>,
      free_agents |-> NoFreeAgents] :
        mine \in SkipLineups, theirs \in SkipLineups, played \in BOOLEAN}

InputsSkip ==
    /\ league \in SkipLeagues
    /\ \E me \in {<<>>, <<1>>, <<2>>, <<3>>} :
          cfg = [my_team_id |-> me, lock_positions |-> <<>>,
                 start_sit_threshold |-> 1500, per_pos_thresholds |-> <<>>]

InitSkip == InputsSkip /\ Outputs0 /\ pc = "recommend_start_sit"

NextSkip == RecommendStartSit \/ FreeAgentTargets \/ RecommendTrades \/ WriteAdviceMarkdown

SpecSkip == InitSkip /\ [][NextSkip]_vars

(***************************************************************************)
(* The rules evaluated again and again, in any order, on one snapshot and  *)
(* one configuration, each result added to the caller's list as main adds  *)
(* it.                                                                     *)
(***************************************************************************)
MaxCalls == 4

EvaluateRule(rule, result) ==
    /\ Len(returned) < MaxCalls
    /\ returned' = Append(returned, [rule |-> rule, result |-> result])
    /\ called' = Append(called, rule)
    /\ advice_items' = advice_items \o result
    /\ UNCHANGED <<league, cfg, pc, advice, eligible_bench, thresh, strength, trades, best, adds, report, files, raised, today, fetched, asked>>

EvaluateStartSit == EvaluateRule("recommend_start_sit", recommend_start_sit(league, cfg))

EvaluateFreeAgents == EvaluateRule("free_agent_targets", free_agent_targets(league, cfg))

EvaluateTrades == EvaluateRule("recommend_trades", recommend_trades(league, cfg))

\* the leagues of one matchup, with and without locks and a managed team
InputsRepeat == InputsLeagues /\ Len(league.teams) = 2

InitRepeat == InputsRepeat /\ Outputs0 /\ pc = "recommend_start_sit"

NextRepeat == EvaluateStartSit \/ EvaluateFreeAgents \/ EvaluateTrades

SpecRepeat == InitRepeat /\ [][NextRepeat]_vars

(***************************************************************************)
(* The vocabulary of the claims: the snapshot read directly, not through   *)
(* the rules' helpers.                                                     *)
(***************************************************************************)
Ran(rule) == rule \in Range(called)

Plays(bs, t) == bs.home_team = t \/ bs.away_team = t

\* the players of the lineup of the first box score team t plays in
LineupPlayers(t) ==
    LET bs == league.box_scores
        first == {i \in DOMAIN bs : Plays(bs[i], t) /\ \A j \in 1..(i - 1) : ~Plays(bs[j], t)}
    IN UNION {Range(IF bs[i].home_team = t THEN bs[i].home_lineup ELSE bs[i].away_lineup) :
                 i \in first}

StartersOf(t) == {p \in LineupPlayers(t) : p.slot_position \notin {"BE", "IR"}}

BenchOf(t) == {p \in LineupPlayers(t) : p.slot_position \in {"BE", "IR"}}

MyStarters == IF cfg.my_team_id = <<>> THEN {} ELSE StartersOf(cfg.my_team_id[1])

MyBench == IF cfg.my_team_id = <<>> THEN {} ELSE BenchOf(cfg.my_team_id[1])

\* projected points, a missing projection counting as 0
Projection(p) == IF p.projected_points = <<>> THEN 0 ELSE p.projected_points[1]

Locked(pos) == \E l \in Range(cfg.lock_positions) : _norm_pos(l) = _norm_pos(pos)

\* the bench players the rule holds eligible for starter s
EligibleFor(s) == {b \in MyBench : Eligible(b, _norm_pos(s.position), Lockset(cfg))}

MaxProjection(S) == CHOOSE v \in {Projection(b) : b \in S} : \A b \in S : Projection(b) <= v

ItemsFor(s) == {k \in DOMAIN advice : advice[k].starter_out = s.name}

(***************************************************************************)
(* C1: for every starter of the managed team that is not in a locked       *)
(* position and has an eligible bench player, a start_sit item is emitted  *)
(* exactly when (best eligible bench projection) - (starter projection),   *)
(* the true difference, is at least the threshold of the starter's         *)
(* position.  The code compares the difference rounded to two decimals.    *)
(***************************************************************************)
C1_SwapExactlyWhenTrueDifferenceReachesThreshold ==
    Ran("recommend_start_sit") =>
        \A s \in MyStarters :
            (~Locked(s.position) /\ EligibleFor(s) # {}) =>
                (ItemsFor(s) # {}
                    <=> MaxProjection(EligibleFor(s)) - Projection(s)
                            >= _threshold_for(s.position, cfg))

(***************************************************************************)
(* C2: the bench player named as bench_in in a recommendation for a        *)
(* starter is eligible for that starter, and no bench player eligible for  *)
(* that starter has a strictly higher projection.                          *)
(***************************************************************************)
C2_BenchInHasHighestProjection ==
    Ran("recommend_start_sit") =>
        \A k \in DOMAIN advice :
            \E s \in MyStarters :
                /\ s.name = advice[k].starter_out
                /\ \E b \in EligibleFor(s) :
                      /\ b.name = advice[k].bench_in
                      /\ \A o \in EligibleFor(s) : Projection(o) <= Projection(b)

\* a recommendation whose bench_in beat an earlier eligible bench player
C2_Witness ==
    /\ Ran("recommend_start_sit")
    /\ \E k \in DOMAIN advice :
          \E s \in MyStarters :
              /\ s.name = advice[k].starter_out
              /\ \E b, o \in EligibleFor(s) :
                    /\ b.name = advice[k].bench_in
                    /\ o.name[2] < b.name[2]
                    /\ Projection(o) < Projection(b)

(***************************************************************************)
(* C3: a bench player is considered as a replacement for a starter exactly *)
(* when it has the same normalized position as the starter or shares an    *)
(* eligibility tag with the starter, and a bench player that satisfies     *)
(* neither is never recommended in place of that starter.  Stated for the  *)
(* starters and bench players whose positions are not locked.              *)
(***************************************************************************)
SamePosition(b, s) == _norm_pos(b.position) = _norm_pos(s.position)

Tags(p) == {p.eligibleSlots[i] : i \in DOMAIN p.eligibleSlots}

SharesTag(b, s) == Tags(b) \cap Tags(s) # {}

Considered(b, s) == s.name \in DOMAIN eligible_bench /\ b \in Range(eligible_bench[s.name])

C3_ConsideredIffSamePositionOrSharedTag ==
    Ran("recommend_start_sit") =>
        /\ \A s \in MyStarters : \A b \in MyBench :
              (~Locked(s.position) /\ ~Locked(b.position)) =>
                  (Considered(b, s) <=> (SamePosition(b, s) \/ SharesTag(b, s)))
        /\ \A k \in DOMAIN advice : \A s \in MyStarters : \A b \in MyBench :
              (s.name = advice[k].starter_out /\ b.name = advice[k].bench_in) =>
                  (SamePosition(b, s) \/ SharesTag(b, s))

(***************************************************************************)
(* C3, amended: a bench player is considered as a replacement for a        *)
(* starter whose position is not locked exactly when the bench player's    *)
(* own position is not locked and it has the same normalized position as   *)
(* the starter or lists the starter's normalized position among its own    *)
(* eligibility tags; a bench player that satisfies neither is never        *)
(* recommended in place of that starter.                                   *)
(***************************************************************************)
ListsPositionOf(b, s) == _norm_pos(s.position) \in Tags(b)

C3_ConsideredIffSamePositionOrListsStarterPosition ==
    Ran("recommend_start_sit") =>
        /\ \A s \in MyStarters : \A b \in MyBench :
              ~Locked(s.position) =>
                  (Considered(b, s)
                      <=> (~Locked(b.position)
                             /\ (SamePosition(b, s) \/ ListsPositionOf(b, s))))
        /\ \A k \in DOMAIN advice : \A s \in MyStarters : \A b \in MyBench :
              (s.name = advice[k].starter_out /\ b.name = advice[k].bench_in) =>
                  (SamePosition(b, s) \/ ListsPositionOf(b, s))

\* one bench player considered for a starter whose position is spelled
\* differently, and for another starter through its tags alone
C3_Witness ==
    /\ Ran("recommend_start_sit")
    /\ \E s \in MyStarters : \E b \in MyBench :
          Considered(b, s) /\ SamePosition(b, s) /\ b.position # s.position
    /\ \E s \in MyStarters : \E b \in MyBench :
          /\ Considered(b, s) /\ ~SamePosition(b, s)
          /\ \E k \in DOMAIN advice :
                advice[k].starter_out = s.name /\ advice[k].bench_in = b.name

(***************************************************************************)
(* C4: the threshold of a start/sit comparison is the per-position         *)
(* threshold configured for the starter's normalized position when one is  *)
(* configured and the global default otherwise, the global default also    *)
(* when the starter has no position; threshold_used is that value.         *)
(***************************************************************************)
HasPosition(s) == s.position # NoneV

ClaimedThreshold(s) ==
    IF HasPosition(s) /\ _norm_pos(s.position) \in DOMAIN cfg.per_pos_thresholds
    THEN cfg.per_pos_thresholds[_norm_pos(s.position)]
    ELSE cfg.start_sit_threshold

C4_ThresholdIsPerPositionElseDefault ==
    Ran("recommend_start_sit") =>
        /\ \A s \in MyStarters :
              s.name \in DOMAIN thresh => thresh[s.name] = ClaimedThreshold(s)
        /\ \A k \in DOMAIN advice : \A s \in MyStarters :
              s.name = advice[k].starter_out =>
                  advice[k].threshold_used = ClaimedThreshold(s)

(***************************************************************************)
(* C4, amended: as C4, but a starter with no position is looked up under   *)
(* the empty key "", so that it gets the global default unless a threshold *)
(* is configured under "".                                                 *)
(***************************************************************************)
ThresholdKey(s) == IF HasPosition(s) THEN _norm_pos(s.position) ELSE ""

AmendedThreshold(s) ==
    IF ThresholdKey(s) \in DOMAIN cfg.per_pos_thresholds
    THEN cfg.per_pos_thresholds[ThresholdKey(s)]
    ELSE cfg.start_sit_threshold

C4_ThresholdIsPerKeyElseDefault ==
    Ran("recommend_start_sit") =>
        /\ \A s \in MyStarters :
              s.name \in DOMAIN thresh => thresh[s.name] = AmendedThreshold(s)
        /\ \A k \in DOMAIN advice : \A s \in MyStarters :
              s.name = advice[k].starter_out =>
                  advice[k].threshold_used = AmendedThreshold(s)

\* a recommendation made under the threshold configured for its starter's
\* position, which is not the global default
C4_Witness ==
    /\ Ran("recommend_start_sit")
    /\ \E k \in DOMAIN advice : \E s \in MyStarters :
          /\ s.name = advice[k].starter_out
          /\ HasPosition(s)
          /\ _norm_pos(s.position) \in DOMAIN cfg.per_pos_thresholds
          /\ advice[k].threshold_used # cfg.start_sit_threshold

(***************************************************************************)
(* The vocabulary of the claims about trades.                              *)
(***************************************************************************)
Me == cfg.my_team_id[1]

RECURSIVE SumProjections(_)
SumProjections(S) ==
    IF S = {} THEN 0
    ELSE LET p == CHOOSE q \in S : TRUE
         IN Projection(p) + SumProjections(S \ {p})

StartersAt(t, pos) == {p \in StartersOf(t) : _norm_pos(p.position) = pos}

BenchAt(t, pos) == {p \in BenchOf(t) : _norm_pos(p.position) = pos}

\* the total projected points of team t's starters at position pos
StrengthOf(t, pos) == SumProjections(StartersAt(t, pos))

\* t is more than 8.0 points stronger than u at pos
Leads(t, u, pos) == StrengthOf(t, pos) > StrengthOf(u, pos) + 8000

Opponent(r) == (CHOOSE t \in Range(league.teams) : t.team_name = r.trade_with_team).team_id

Gives(r) == r.rationale[1]

Needs(r) == r.rationale[3]

(***************************************************************************)
(* C6: every trade recommendation, with opponent O, giving position G and  *)
(* receiving position N, has G # N, G and N among RB, WR, QB, TE, the      *)
(* managed team's strength at G more than 8.0 above O's, O's strength at N *)
(* more than 8.0 above the managed team's, and O is not the managed team.  *)
(***************************************************************************)
C6_TradesRestOnImbalances ==
    Ran("recommend_trades") =>
        \A k \in DOMAIN trades :
            LET r == trades[k]
            IN /\ Gives(r) # Needs(r)
               /\ {Gives(r), Needs(r)} \subseteq {"RB", "WR", "QB", "TE"}
               /\ Opponent(r) # Me
               /\ Leads(Me, Opponent(r), Gives(r))
               /\ Leads(Opponent(r), Me, Needs(r))

\* a trade is recommended
C6_Witness ==
    /\ Ran("recommend_trades")
    /\ \E k \in DOMAIN trades :
          /\ Leads(Me, Opponent(trades[k]), Gives(trades[k]))
          /\ Cardinality(StartersAt(Me, Gives(trades[k]))) > 1

(***************************************************************************)
(* C7: the player sent is on the managed team's bench at the surplus       *)
(* position, the player received is on the opponent's bench at the need    *)
(* position, no starter of either team is proposed, and an (opponent,      *)
(* surplus, need) combination one side of which has no such bench player   *)
(* gets no recommendation.                                                 *)
(***************************************************************************)
C7_TradesSwapBenchPlayers ==
    Ran("recommend_trades") =>
        /\ \A k \in DOMAIN trades :
              LET r == trades[k]
              IN /\ \E b \in BenchAt(Me, Gives(r)) :
                        r.send_player = <<b.name, b.position>>
                 /\ \E b \in BenchAt(Opponent(r), Needs(r)) :
                        r.receive_player = <<b.name, b.position>>
                 /\ \A p \in StartersOf(Me) \cup StartersOf(Opponent(r)) :
                        p.name \notin {r.send_player[1], r.receive_player[1]}
        /\ \A k \in DOMAIN trades :
              \A o \in DOMAIN league.teams : \A G, N \in Range(TradePositions) :
                  (/\ trades[k].trade_with_team = league.teams[o].team_name
                   /\ Gives(trades[k]) = G /\ Needs(trades[k]) = N) =>
                      ~(BenchAt(Me, G) = {} \/ BenchAt(league.teams[o].team_id, N) = {})

\* a trade is recommended with one opponent while another opponent, as far
\* ahead and behind, has no bench player to give
C7_Witness ==
    /\ Ran("recommend_trades")
    /\ trades # <<>>
    /\ \E o \in DOMAIN league.teams : \E G, N \in Range(TradePositions) :
          LET opp == league.teams[o].team_id
          IN /\ opp # Me /\ G # N
             /\ Leads(Me, opp, G) /\ Leads(opp, Me, N)
             /\ BenchAt(Me, G) # {}
             /\ BenchAt(opp, N) = {}

(***************************************************************************)
(* C8: recommend_trades returns at most 5 suggestions, and they are the    *)
(* first 5 qualifying (opponent, surplus, need) combinations in iteration  *)
(* order: opponents in league.teams order, then the surplus position in    *)
(* the order RB, WR, QB, TE, then the need position in the same order.     *)
(***************************************************************************)
PositionOrder == <<"RB", "WR", "QB", "TE">>

Qualifies(o, g, n) ==
    LET opp == league.teams[o].team_id
        G == PositionOrder[g]
        N == PositionOrder[n]
    IN /\ opp # Me /\ G # N
       /\ ~Locked(G) /\ ~Locked(N)
       /\ Leads(Me, opp, G) /\ Leads(opp, Me, N)
       /\ BenchAt(Me, G) # {} /\ BenchAt(opp, N) # {}

Qualifying ==
    IF cfg.my_team_id = <<>> THEN {}
    ELSE {q \in (DOMAIN league.teams) \X (1..4) \X (1..4) : Qualifies(q[1], q[2], q[3])}

Before(q, r) ==
    \/ q[1] < r[1]
    \/ q[1] = r[1] /\ q[2] < r[2]
    \/ q[1] = r[1] /\ q[2] = r[2] /\ q[3] < r[3]

Rank(q) == Cardinality({r \in Qualifying : Before(r, q)}) + 1

C8_TradesAreTheFirstFive ==
    Ran("recommend_trades") =>
        /\ Len(trades) <= 5
        /\ Len(trades) = (IF Cardinality(Qualifying) < 5 THEN Cardinality(Qualifying) ELSE 5)
        /\ \A q \in Qualifying :
              Rank(q) <= 5 =>
                  /\ trades[Rank(q)].trade_with_team = league.teams[q[1]].team_name
                  /\ Gives(trades[Rank(q)]) = PositionOrder[q[2]]
                  /\ Needs(trades[Rank(q)]) = PositionOrder[q[3]]

\* more than 5 combinations qualify
C8_Witness ==
    /\ Ran("recommend_trades")
    /\ Cardinality(Qualifying) > 5
    /\ Len(trades) = 5

(***************************************************************************)
(* C9: for every team and every position, the strength is the sum of the   *)
(* projected points of the team's starters at that normalized position     *)
(* (bench players add nothing, a missing projection counts as 0), and a    *)
(* position with no starter is absent from the dict.                       *)
(***************************************************************************)
PositionsSeen ==
    {_norm_pos(p.position) : p \in UNION {LineupPlayers(t.team_id) : t \in Range(league.teams)}}
        \cup Range(PositionOrder)

C9_StrengthIsSumOfStarterProjections ==
    Ran("recommend_trades") =>
        /\ cfg.my_team_id # <<>> =>
              DOMAIN strength = {Me} \cup {t.team_id : t \in Range(league.teams)}
        /\ \A t \in DOMAIN strength :
              /\ DOMAIN strength[t] \subseteq PositionsSeen
              /\ \A pos \in PositionsSeen :
                    /\ pos \in DOMAIN strength[t] <=> StartersAt(t, pos) # {}
                    /\ pos \in DOMAIN strength[t] => strength[t][pos] = StrengthOf(t, pos)

\* a team with two starters at one position spelled in two ways, and a team
\* with two starters and a bench player with points at one position
C9_Witness ==
    /\ Ran("recommend_trades")
    /\ \E t \in DOMAIN strength : \E p, q \in StartersOf(t) :
          /\ _norm_pos(p.position) = _norm_pos(q.position) /\ p.position # q.position
          /\ Projection(p) > 0 /\ Projection(q) > 0
    /\ \E t \in DOMAIN strength : \E p, q \in StartersOf(t) : \E b \in BenchOf(t) :
          /\ p # q
          /\ _norm_pos(p.position) = _norm_pos(q.position)
          /\ _norm_pos(b.position) = _norm_pos(p.position)
          /\ Projection(p) > 0 /\ Projection(q) > 0 /\ Projection(b) > 0

(***************************************************************************)
(* C10: for each position of the fixed list whose pass is not skipped, the *)
(* candidates taken are the 5 available players with the highest projected *)
(* points (all of them when fewer are available), highest first, and at    *)
(* most 10 add suggestions are returned: the first 10 of the candidates    *)
(* taken, in the order of the list.                                        *)
(***************************************************************************)
FixedList == <<"RB", "WR", "TE", "QB", "D/ST", "K">>

Available(pos) == Range(league.free_agents[pos].players)

Skipped(pos) == Locked(pos) \/ league.free_agents[pos].raises

Smaller(a, b) == IF a <= b THEN a ELSE b

RECURSIVE Candidates(_)
\* the candidates taken at the first n positions of the list, in order
Candidates(n) ==
    IF n = 0 THEN <<>>
    ELSE Candidates(n - 1) \o (IF FixedList[n] \in DOMAIN best THEN best[FixedList[n]] ELSE <<>>)

TopFive(pos) ==
    LET taken == best[pos]
    IN /\ Len(taken) = Smaller(5, Cardinality(Available(pos)))
       /\ Range(taken) \subseteq Available(pos)
       /\ Cardinality(Range(taken)) = Len(taken)
       /\ \A i, j \in DOMAIN taken : i < j => Projection(taken[i]) >= Projection(taken[j])
       /\ \A t \in Range(taken) : \A u \in Available(pos) \ Range(taken) :
             Projection(u) <= Projection(t)

AddedFor(r) == r.why[1]

C5_LockedPositionsNeverAppear ==
    /\ \A k \in DOMAIN advice :
          ~Locked(advice[k].starter_pos) /\ ~Locked(advice[k].bench_pos)
    /\ \A k \in DOMAIN trades :
          /\ ~Locked(Gives(trades[k])) /\ ~Locked(Needs(trades[k]))
          /\ ~Locked(trades[k].send_player[2])
          /\ ~Locked(trades[k].receive_player[2])
    /\ \A k \in DOMAIN adds : ~Locked(AddedFor(adds[k]))

\* all three rules ran under a lock that is not written in normalized
\* form, each produced advice, and the locked position has a starter, a
\* bench player and free agents on offer
C5_Witness ==
    /\ pc = "done"
    /\ advice # <<>> /\ trades # <<>> /\ adds # <<>>
    /\ \E l \in Range(cfg.lock_positions) :
          /\ l # _norm_pos(l)
          /\ \E s \in MyStarters : _norm_pos(s.position) = _norm_pos(l)
          /\ \E b \in MyBench : _norm_pos(b.position) = _norm_pos(l)
          /\ \E pos \in Range(FixedList) :
                _norm_pos(pos) = _norm_pos(l) /\ Available(pos) # {}

(***************************************************************************)
(* C11: in main's advice list every start_sit item precedes every add      *)
(* item and every add item precedes every trade item; the report has the   *)
(* headings of exactly the sections that have items, in the order          *)
(* Start/Sit, Free-Agent Targets, Trade Ideas, and renders every item once *)
(* under the heading of its type, in the order of the list.                *)
(***************************************************************************)
TypeRank(t) == CASE t = "start_sit" -> 1 [] t = "add" -> 2 [] t = "trade" -> 3

HeadingOf(t) ==
    CASE t = "start_sit" -> "## Start/Sit"
      [] t = "add" -> "## Free-Agent Targets"
      [] t = "trade" -> "## Trade Ideas"

AdviceTypes == <<"start_sit", "add", "trade">>

IsHeading(line) == \E i \in DOMAIN AdviceTypes : line.text = HeadingOf(AdviceTypes[i])

HasItems(t) == \E k \in DOMAIN advice_items : advice_items[k].type = t

RECURSIVE HeadingsDue(_)
\* the headings of the first n types that have items
HeadingsDue(n) ==
    IF n = 0 THEN <<>>
    ELSE HeadingsDue(n - 1) \o (IF HasItems(AdviceTypes[n]) THEN <<HeadingOf(AdviceTypes[n])>> ELSE <<>>)

HeadingsWritten ==
    LET h == Filter(report, {i \in DOMAIN report : IsHeading(report[i])})
    IN [i \in DOMAIN h |-> h[i].text]

ItemsWritten ==
    LET r == Filter(report, {i \in DOMAIN report : report[i].item # <<>>})
    IN [i \in DOMAIN r |-> r[i].item[1]]

\* the heading line i stands under, "" at the top of the report
HeadingAbove(i) ==
    LET above == {h \in 1..(i - 1) : IsHeading(report[h])}
    IN IF above = {} THEN ""
       ELSE report[CHOOSE h \in above : \A g \in above : g <= h].text

C11_AdviceAndReportInFixedOrder ==
    /\ \A i, j \in DOMAIN advice_items :
          i < j => TypeRank(advice_items[i].type) <= TypeRank(advice_items[j].type)
    /\ Ran("write_advice_markdown") =>
          /\ HeadingsWritten = HeadingsDue(Len(AdviceTypes))
          /\ ItemsWritten = advice_items
          /\ \A i \in DOMAIN report :
                report[i].item # <<>> => HeadingAbove(i) = HeadingOf(report[i].item[1].type)

\* the report is written from a list holding items of all three types
C11_Witness ==
    /\ Ran("write_advice_markdown")
    /\ \A i \in DOMAIN AdviceTypes : HasItems(AdviceTypes[i])
    /\ Len(HeadingsWritten) = 3

SeasonsAsked == {y \in DOMAIN league.seasons : cfg.start_year <= y /\ y <= cfg.end_year}

SeasonFailed(y) == league.seasons[y].raises

TeamRowsOf(y) ==
    LET teams == league.seasons[y].teams
    IN [i \in DOMAIN teams |->
           [owner |-> teams[i].owner, year |-> y, team_name |-> teams[i].team_name,
            win |-> teams[i].wins]]

RowsOfSeason(rows, y) == Filter(rows, {k \in DOMAIN rows : rows[k].year = y})

C15_WitnessHeaderOnly ==
    /\ Ran("extract_team_records")
    /\ SeasonsAsked # {}
    /\ \A y \in SeasonsAsked : SeasonFailed(y)
    /\ \E n \in DOMAIN files : files[n].rows = <<>> /\ files[n].header # <<>>

(***************************************************************************)
(* C14: a free-agent fetch that fails is skipped and the other positions   *)
(* are not affected.  Whatever positions the provider raises for,          *)
(* export_free_agents and free_agent_targets end without raising, no entry *)
(* of the result is for a position that failed, and the result is the one  *)
(* the positions that did not fail produce on their own, in the same       *)
(* order.                                                                  *)
(***************************************************************************)
FetchFailed(pos) == pos \notin DOMAIN league.free_agents \/ league.free_agents[pos].raises

\* the positions of the list that did not fail, in the order of the list
NotFailed(positions) == Filter(positions, {i \in DOMAIN positions : ~FetchFailed(positions[i])})

\* the snapshot in which the fetches that failed return nobody instead
FailuresEmptied ==
    [league EXCEPT !.free_agents =
        [pos \in DOMAIN league.free_agents |->
            IF league.free_agents[pos].raises THEN [raises |-> FALSE, players |-> <<>>]
            ELSE league.free_agents[pos]]]

C14_FailedFetchesAreSkipped ==
    /\ Ran("export_free_agents") =>
          /\ raised = NoneV
          /\ "free_agents.csv" \in DOMAIN files
          /\ \A k \in DOMAIN files["free_agents.csv"].rows :
                ~FetchFailed(files["free_agents.csv"].rows[k].fa_position)
          /\ files["free_agents.csv"].rows =
                export_free_agents(league, NotFailed(cfg.positions)).df.rows
    /\ Ran("free_agent_targets") =>
          /\ raised = NoneV
          /\ \A k \in DOMAIN adds : ~FetchFailed(AddedFor(adds[k]))
          /\ adds = free_agent_targets(FailuresEmptied, cfg)

\* export_free_agents wrote rows of a position that comes after one that
\* failed, while another position failed as well
C14_Witness ==
    /\ Ran("export_free_agents")
    /\ \E i, j, k \in DOMAIN cfg.positions :
          /\ i < j /\ i # k /\ j # k
          /\ FetchFailed(cfg.positions[i]) /\ FetchFailed(cfg.positions[k])
          /\ \E r \in Range(files["free_agents.csv"].rows) : r.fa_position = cfg.positions[j]

\* free_agent_targets returned adds of a position that comes after one that
\* failed
C14_WitnessTargets ==
    /\ Ran("free_agent_targets")
    /\ FetchFailed("RB")
    /\ \E k \in DOMAIN adds : AddedFor(adds[k]) = "K"

(***************************************************************************)
(* C17: export_matchups and export_rosters called with scoring_period None *)
(* write files named current_matchups.csv and current_rosters.csv.  The    *)
(* code names the files after the week: matchups_week_<week>.csv and       *)
(* rosters_week_<week>.csv.                                                *)
(***************************************************************************)
C17_CurrentFilesWhenNoScoringPeriod ==
    cfg.scoring_period = <<>> =>
        /\ Ran("export_matchups") => "current_matchups.csv" \in DOMAIN files
        /\ Ran("export_rosters") => "current_rosters.csv" \in DOMAIN files

\* what the code does in that case
C17_FilesAreNamedAfterTheWeek ==
    /\ Ran("export_matchups") =>
          DOMAIN files = {"matchups_week_" \o ToString(OrElse(cfg.scoring_period, league.current_week)[1]) \o ".csv"}
    /\ Ran("export_rosters") =>
          DOMAIN files = {"rosters_week_" \o ToString(OrElse(cfg.scoring_period, league.current_week)[1]) \o ".csv"}

(***************************************************************************)
(* C18: the week column is always populated.  With no scoring period       *)
(* given, every row of export_matchups, export_rosters,                    *)
(* export_current_team_rosters and export_free_agents carries the          *)
(* league's current_week; with a non-zero scoring period given, every row  *)
(* of export_matchups and export_rosters carries that scoring period.      *)
(***************************************************************************)
RowsWritten == UNION {Range(files[n].rows) : n \in DOMAIN files}

TakesScoringPeriod == Ran("export_matchups") \/ Ran("export_rosters")

C18_WeekColumnIsPopulated ==
    \A r \in RowsWritten :
        /\ r.week # <<>>
        /\ (cfg.scoring_period = <<>> \/ ~TakesScoringPeriod) => r.week = league.current_week
        /\ (TakesScoringPeriod /\ cfg.scoring_period \notin {<<>>, <<0>>}) =>
              r.week = cfg.scoring_period

\* export_rosters wrote lineup rows and roster rows under a scoring period
\* other than the current week
C18_Witness ==
    /\ Ran("export_rosters")
    /\ cfg.scoring_period \notin {<<>>, <<0>>, league.current_week}
    /\ \E r \in RowsWritten : r.on_team_id = <<1>>
    /\ \E r \in RowsWritten : r.on_team_id = <<3>>

\* each of the other three exporters wrote rows with no scoring period
C18_WitnessNoScoringPeriod ==
    /\ cfg.scoring_period = <<>>
    /\ Ran("export_current_team_rosters") \/ Ran("export_free_agents") \/ Ran("export_matchups")
    /\ RowsWritten # {}

(***************************************************************************)
(* C19: export_current_team_rosters includes starters and bench.  For      *)
(* every team that appears in a box score, every player of its lineup,     *)
(* the BE and IR players that team.roster leaves out included, is in       *)
(* exactly one row, and is_starter is true exactly when the player's slot  *)
(* is neither BE nor IR; no row is of anyone else; the starters and the    *)
(* bench that _lineup_for_team returns are disjoint and together are the   *)
(* whole lineup.                                                           *)
(***************************************************************************)
TeamsPlaying == {t \in Range(league.teams) : LineupPlayers(t.team_id) # {}}

CurrentRows == files["current_team_rosters.csv"].rows

RowsOf(t, p) == {k \in DOMAIN CurrentRows :
                    CurrentRows[k].on_team_id = <<t.team_id>> /\ CurrentRows[k].name = p.name}

C19_CurrentRostersHoldStartersAndBench ==
    Ran("export_current_team_rosters") =>
        /\ \A t \in TeamsPlaying : \A p \in LineupPlayers(t.team_id) :
              /\ Cardinality(RowsOf(t, p)) = 1
              /\ \A k \in RowsOf(t, p) :
                    /\ CurrentRows[k].is_starter <=> p.slot_position \notin {"BE", "IR"}
                    /\ CurrentRows[k].slot = p.slot_position
        /\ \A k \in DOMAIN CurrentRows :
              \E t \in TeamsPlaying : \E p \in LineupPlayers(t.team_id) : k \in RowsOf(t, p)
        /\ \A t \in Range(league.teams) :
              LET lu == _lineup_for_team(league, t.team_id)
              IN /\ Range(lu.starters) \cap Range(lu.bench) = {}
                 /\ Range(lu.starters) \cup Range(lu.bench) = LineupPlayers(t.team_id)
                 /\ Len(lu.starters) + Len(lu.bench) = Cardinality(LineupPlayers(t.team_id))

\* a lineup with a starter, a BE and an IR player, of a team whose roster
\* leaves the BE player out, and the rows of the two bench players
C19_Witness ==
    /\ Ran("export_current_team_rosters")
    /\ \E t \in TeamsPlaying :
          /\ \E p \in LineupPlayers(t.team_id) : p.slot_position = "RB"
          /\ \E p \in LineupPlayers(t.team_id) :
                p.slot_position = "BE" /\ p \notin Range(t.roster) /\ RowsOf(t, p) # {}
          /\ \E p \in LineupPlayers(t.team_id) : p.slot_position = "IR" /\ RowsOf(t, p) # {}

(***************************************************************************)
(* C20: export_upcoming_pro_schedule filters and deduplicates.  For any    *)
(* schedule, the same game listed under several teams or not, the export   *)
(* writes its output, which has exactly one row per distinct game id whose *)
(* date in Eastern Time is today or later, no row of a game dated before   *)
(* today and none of a game whose date cannot be parsed, the rows ordered  *)
(* by game date, then game id.  With no game today or later the code       *)
(* raises KeyError in sort_values and writes nothing.                      *)
(***************************************************************************)
GamesListed == UNION {Range(league.pro_schedule[t]) : t \in DOMAIN league.pro_schedule}

\* the day, in Eastern Time, of an hour counted in UTC
DayInEasternTime(hour) == CHOOSE d \in 0..hour : 24 * d + 5 <= hour /\ hour < 24 * (d + 1) + 5

Upcoming == {g \in GamesListed : g.date # <<>> /\ DayInEasternTime(g.date[1]) >= today}

ScheduleRows == files["pro_schedule_upcoming.csv"].rows

ScheduleRowsAreTheUpcomingGames ==
    /\ \A g \in Upcoming :
          Cardinality({k \in DOMAIN ScheduleRows : ScheduleRows[k].game_id = g.gameId}) = 1
    /\ \A k \in DOMAIN ScheduleRows :
          \E g \in Upcoming : /\ ScheduleRows[k].game_id = g.gameId
                              /\ ScheduleRows[k].game_date = DayInEasternTime(g.date[1])
    /\ \A i, j \in DOMAIN ScheduleRows :
          i < j => \/ ScheduleRows[i].game_date < ScheduleRows[j].game_date
                   \/ /\ ScheduleRows[i].game_date = ScheduleRows[j].game_date
                      /\ ScheduleRows[i].game_id < ScheduleRows[j].game_id

C20_ScheduleIsFilteredAndDeduplicated ==
    Ran("export_upcoming_pro_schedule") =>
        /\ "pro_schedule_upcoming.csv" \in DOMAIN files
        /\ ScheduleRowsAreTheUpcomingGames

\* what holds of the code: the same, when some game is today or later
C20_FilteredAndDeduplicatedWhenSomeGameIsUpcoming ==
    Ran("export_upcoming_pro_schedule") =>
        IF Upcoming = {}
        THEN raised = "KeyError" /\ files = <<>>
        ELSE "pro_schedule_upcoming.csv" \in DOMAIN files /\ ScheduleRowsAreTheUpcomingGames

\* both teams list a game of today and a game of the evening before, and a
\* later game comes before it in the lists
C20_WitnessWhenSomeGameIsUpcoming ==
    /\ Ran("export_upcoming_pro_schedule")
    /\ raised = NoneV
    /\ \E g, h, e \in GamesListed :
          /\ g.date = <<60>> /\ h.date = <<100>> /\ e.date = <<50>>
          /\ h.gameId < g.gameId
          /\ \A t \in DOMAIN league.pro_schedule : {g, e} \subseteq Range(league.pro_schedule[t])

(***************************************************************************)
(* C16: with a configuration that has the required keys the daily run      *)
(* never aborts, whatever the provider returns: every export writes its    *)
(* file and the advice report is written.  The only abort is that of       *)
(* load_config on a missing league_id or season_year, before any provider  *)
(* call and any file.  In the code, export_standings on a league of no     *)
(* teams and export_upcoming_pro_schedule with no game today or later      *)
(* raise KeyError in sort_values.                                          *)
(***************************************************************************)
ExportFiles(week) ==
    {"standings.csv", "matchups_week_" \o week \o ".csv", "rosters_week_" \o week \o ".csv",
     "current_team_rosters.csv", "free_agents.csv", "pro_schedule_upcoming.csv",
     "league_settings.txt"}

C16_OnlyAMissingRequiredKeyAborts ==
    /\ raised # NoneV =>
          /\ ~({"league_id", "season_year"} \subseteq DOMAIN cfg)
          /\ called = <<"load_config">>
          /\ files = <<>>
    /\ Ran("load_config") /\ {"league_id", "season_year"} \subseteq DOMAIN cfg => pc # "aborted"
    /\ pc = "done" =>
          /\ \E week \in {"3", "5"} : ExportFiles(week) \subseteq DOMAIN files
          /\ report # <<>>

\* what holds of the code: a run that does not stop at load_config aborts
\* exactly when the league has no teams or no game is today or later
C16_AbortsOfTheDailyRun ==
    /\ Ran("load_config") /\ ~({"league_id", "season_year"} \subseteq DOMAIN cfg) =>
          raised = "KeyError" /\ called = <<"load_config">> /\ files = <<>>
    /\ Ran("export_standings") =>
          (raised # NoneV <=> \/ league.teams = <<>>
                              \/ Ran("export_upcoming_pro_schedule") /\ Upcoming = {})
    /\ pc = "done" =>
          /\ \E week \in {"3", "5"} : ExportFiles(week) \subseteq DOMAIN files
          /\ report # <<>>

\* a run that gets to the end, with every file and the report written
C16_WitnessRunToTheEnd == pc = "done" /\ Cardinality(DOMAIN files) = 7 /\ advice_items # <<>>

(***************************************************************************)
(* C13: no operation mutates the data it is given: the rules and the       *)
(* exporters leave the snapshot unchanged, and the rules and the           *)
(* extractors, extract_team_records included, leave the configuration      *)
(* passed to them unchanged.  In the code extract_team_records sets        *)
(* out_file and delimiter on its config when they are missing or empty.    *)
(***************************************************************************)
C13_NoOperationMutatesItsInputs == [][league' = league /\ cfg' = cfg]_vars

\* the attributes of the configuration other than those named are unchanged
ConfigSetsOnly(names) ==
    /\ DOMAIN cfg' = DOMAIN cfg
    /\ \A name \in DOMAIN cfg \ names : cfg'[name] = cfg[name]

Missing(value) == value = NoneV \/ value = ""

OrDefault(value, default) == IF value = NoneV THEN default ELSE value

\* C13 as it holds of the code: the snapshot is never changed, and the
\* configuration is changed by extract_team_records only, which sets
\* out_file to output_dir/history_file when out_file is missing or empty
\* and delimiter to format (or ",") when delimiter is missing or empty
C13_OnlyMissingHistoryAttributesAreSet ==
    [][/\ league' = league
       /\ pc # "extract_team_records" => cfg' = cfg
       /\ pc = "extract_team_records" =>
             /\ ConfigSetsOnly({"out_file", "delimiter"})
             /\ cfg'.out_file =
                   IF Missing(cfg.out_file)
                   THEN LET dir == OrDefault(cfg.output_dir, "")
                            file == OrDefault(cfg.history_file, "league_history.csv")
                        IN IF dir = "" THEN file ELSE dir \o "/" \o file
                   ELSE cfg.out_file
             /\ cfg'.delimiter =
                   IF Missing(cfg.delimiter) THEN OrDefault(cfg.format, ",") ELSE cfg.delimiter]_vars

\* extract_team_records has returned from a config of the old style, whose
\* out_file and delimiter are now set
C13_Witness ==
    /\ pc = "done"
    /\ \E k \in DOMAIN called : called[k] \in {"extract_team_records", "extract_team_records(test_mode=True)"}
    /\ cfg.output_dir = "out"
    /\ cfg.out_file = "out/history.psv"
    /\ cfg.delimiter = "|"

\* the exporters and the rules have all run on a league with teams
C13_WitnessDailyOperations ==
    /\ pc = "done"
    /\ Ran("recommend_trades")
    /\ Ran("export_league_settings")
    /\ league.teams # <<>>

(***************************************************************************)
(* C21: extract_team_records in test mode never contacts the provider and  *)
(* writes the header and exactly the fixed sample rows in their fixed      *)
(* order, whatever league_id, start_year, end_year and credentials are;    *)
(* two offline runs with the same delimiter write identical files.         *)
(***************************************************************************)
Offline == {i \in DOMAIN returned : returned[i].test_mode}

\* the owners of the sample, in the order of the source
SampleOwners ==
    <<"jessie marshall", "Bailey Zambuto", "Jhonatan De la Cruz", "Leon Law", "Eddie Rivera",
      "Tresa Omara", "james czarnowski", "Michael Dungo", "Lisa Mizrachi", "Wes Harris">>

C21_OfflineRunsWriteTheFixedSample ==
    /\ \A i \in Offline :
          /\ returned[i].file.header = _HEADERS
          /\ returned[i].file.delimiter = returned[i].config.delimiter
          /\ Len(returned[i].file.rows) = Len(SampleOwners)
          /\ \A k \in DOMAIN SampleOwners :
                /\ returned[i].file.rows[k].owner = SampleOwners[k]
                /\ returned[i].file.rows[k].year = 2018
    /\ \A i, j \in Offline :
          returned[i].config.delimiter = returned[j].config.delimiter =>
             returned[i].file = returned[j].file
    /\ Offline = DOMAIN returned => fetched = <<>>

\* two offline runs for different leagues, seasons and credentials, with
\* the same delimiter
C21_Witness ==
    /\ Len(returned) = 2
    /\ Offline = {1, 2}
    /\ returned[1].config.league_id # returned[2].config.league_id
    /\ returned[1].config.start_year # returned[2].config.start_year
    /\ returned[1].config.espn_s2 # returned[2].config.espn_s2
    /\ returned[1].config.delimiter = returned[2].config.delimiter
    /\ returned[1].config.out_file # returned[2].config.out_file
    /\ DOMAIN files = {"a.csv", "b.csv"}

\* a production run of the same config asks the provider
C21_WitnessProduction == Len(returned) = 1 /\ Offline = {} /\ fetched = <<2018, 2019>>

(***************************************************************************)
(* C22: export_free_agents returns at most one row per player_id: of a     *)
(* player returned for several of the positions queried, the row of the    *)
(* first such position in the order of the configured positions is kept,   *)
(* and every player returned for some position is in the output.  Players  *)
(* are told apart by their playerId.                                       *)
(***************************************************************************)
\* the ids of the players the provider returns for the k-th position
ReturnedAt(k) ==
    IF FetchFailed(cfg.positions[k]) THEN {}
    ELSE {p.playerId : p \in Range(league.free_agents[cfg.positions[k]].players)}

\* the first of the configured positions the player is returned for
FirstPositionOf(id) ==
    cfg.positions[CHOOSE k \in DOMAIN cfg.positions :
                     /\ id \in ReturnedAt(k)
                     /\ \A j \in 1..(k - 1) : id \notin ReturnedAt(j)]

FreeAgentRowsWritten == files["free_agents.csv"].rows

C22_OneRowPerFreeAgentOfTheFirstPosition ==
    Ran("export_free_agents") =>
       /\ \A i, j \in DOMAIN FreeAgentRowsWritten :
             i # j => FreeAgentRowsWritten[i].player_id # FreeAgentRowsWritten[j].player_id
       /\ {r.player_id : r \in Range(FreeAgentRowsWritten)} =
             UNION {ReturnedAt(k) : k \in DOMAIN cfg.positions}
       /\ \A r \in Range(FreeAgentRowsWritten) : r.fa_position = FirstPositionOf(r.player_id)

\* a player returned for FLEX and then for RB is exported once, as FLEX
C22_Witness ==
    /\ Ran("export_free_agents")
    /\ \E i, j \in DOMAIN cfg.positions :
          /\ i < j
          /\ cfg.positions[i] = "FLEX"
          /\ "r2" \in ReturnedAt(i) \cap ReturnedAt(j)
    /\ \E r \in Range(FreeAgentRowsWritten) : r.player_id = "r2" /\ r.fa_position = "FLEX"

\* a player returned for RB and later for FLEX is exported as RB
C22_WitnessDefaultOrder ==
    /\ Ran("export_free_agents")
    /\ cfg.positions = DefaultPositions
    /\ \E r \in Range(FreeAgentRowsWritten) : r.player_id = "r2" /\ r.fa_position = "RB"
    /\ \E r \in Range(FreeAgentRowsWritten) : r.player_id = "w2" /\ r.fa_position = "FLEX"

(***************************************************************************)
(* C23: skip on missing data.  With my_team_id not configured,             *)
(* recommend_start_sit and recommend_trades return an empty list without   *)
(* asking the provider; with the managed team in no box score both return  *)
(* an empty list; recommend_start_sit gives at most one recommendation per *)
(* starter, in lineup order; and with no advice at all the report holds    *)
(* the notice "No actionable recommendations today" and no section         *)
(* heading.                                                                *)
(***************************************************************************)
NotConfigured == cfg.my_team_id = <<>>

InNoBoxScore ==
    /\ cfg.my_team_id # <<>>
    /\ \A i \in DOMAIN league.box_scores : ~Plays(league.box_scores[i], cfg.my_team_id[1])

Notice == "_No actionable recommendations today._"

\* the place in its lineup of the starter item k benches; the model names a
\* player by team and place
PlaceOf(k) == advice[k].starter_out[2]

C23_SkipOnMissingData ==
    /\ Ran("recommend_start_sit") =>
          /\ NotConfigured => advice = <<>> /\ "recommend_start_sit" \notin asked
          /\ InNoBoxScore => advice = <<>>
          /\ \A k \in DOMAIN advice : \E st \in MyStarters : st.name = advice[k].starter_out
          /\ \A k, l \in DOMAIN advice : k < l => PlaceOf(k) < PlaceOf(l)
    /\ Ran("recommend_trades") =>
          /\ NotConfigured => trades = <<>> /\ "recommend_trades" \notin asked
          /\ InNoBoxScore => trades = <<>>
    /\ (Ran("write_advice_markdown") /\ advice_items = <<>>) =>
          /\ \E i \in DOMAIN report : report[i].text = Notice
          /\ \A i \in DOMAIN report : ~IsHeading(report[i])

\* no managed team is configured, the other teams have advice to get, and
\* the report of the run holds the notice
C23_Witness ==
    /\ pc = "done"
    /\ NotConfigured
    /\ advice_items = <<>>
    /\ asked = {}
    /\ \E i \in DOMAIN league.box_scores : Len(league.box_scores[i].home_lineup) = 4
    /\ \E i \in DOMAIN report : report[i].text = Notice

\* the managed team plays in no box score of a week that has one
C23_WitnessInNoBoxScore ==
    /\ pc = "done"
    /\ InNoBoxScore
    /\ league.box_scores # <<>>
    /\ asked = {"recommend_start_sit", "recommend_trades"}
    /\ advice = <<>> /\ trades = <<>>

\* three starters are benched, in the order of the lineup
C23_WitnessManyStarters ==
    /\ Ran("recommend_start_sit")
    /\ Len(advice) = 3
    /\ PlaceOf(1) = 1 /\ PlaceOf(2) = 2 /\ PlaceOf(3) = 3

\* the same runs with advice: trades are recommended to the managed team
C23_WitnessTrades == Ran("recommend_trades") /\ trades # <<>> /\ advice # <<>>

====
